---- MODULE Spec2Model ----
(***************************************************************************)
(* Model of the frigate_plate_recognizer event pipeline:                   *)
(*   events.py        the in-flight event tracker (CURRENT_EVENTS)         *)
(*   storage.py       the plates table (insert_plate, has_processed_event) *)
(*   recognition.py   check_watched_plates and the two recognisers         *)
(*   pipeline.py      get_plate (backend choice and score floor)           *)
(*   event_filters.py check_first_message, check_invalid_event             *)
(*   app.py           process_message / _process_message_inner             *)
(*                                                                         *)
(* Plates are sequences of one-character strings.  Scores are integers in  *)
(* hundredths (0.91 is 91); similarity ratios are exact fractions          *)
(* <<numerator, denominator>>.                                             *)
(***************************************************************************)
EXTENDS Integers, Sequences, FiniteSets, TLC

\* ------------------------------------------------------------------------
\* Python values
\* ------------------------------------------------------------------------

\* Python's None where a score (float) is expected.
None == -1

\* A plate that is None or '' (both are falsy and are tested only by truth).
NoPlate == <<>>

\* A similarity ratio that is None.
NoRatio == <<>>

\* bool(x) for an optional number: None and 0 are falsy.
Truthy(x) == x # None /\ x # 0

\* bool(r) for an optional ratio: None and 0.0 are falsy.
TruthyRatio(r) == r # NoRatio /\ r[1] # 0

\* bool(s) for an optional string.
TruthyPlate(s) == s # NoPlate

UpperChars ==
    <<"A","B","C","D","E","F","G","H","I","J","K","L","M",
      "N","O","P","Q","R","S","T","U","V","W","X","Y","Z">>

LowerChars ==
    <<"a","b","c","d","e","f","g","h","i","j","k","l","m",
      "n","o","p","q","r","s","t","u","v","w","x","y","z">>

\* str.lower() on one character.
lower_char(c) ==
    IF \E i \in 1..26 : UpperChars[i] = c
    THEN LowerChars[CHOOSE i \in 1..26 : UpperChars[i] = c]
    ELSE c

\* str.upper() on one character.
upper_char(c) ==
    IF \E i \in 1..26 : LowerChars[i] = c
    THEN UpperChars[CHOOSE i \in 1..26 : LowerChars[i] = c]
    ELSE c

\* str.lower()
lower(s) == [i \in 1..Len(s) |-> lower_char(s[i])]

\* str.upper()
upper(s) == [i \in 1..Len(s) |-> upper_char(s[i])]

\* ------------------------------------------------------------------------
\* difflib.SequenceMatcher(a=..., b=...).ratio()
\* ------------------------------------------------------------------------

RECURSIVE RunLen(_, _, _, _, _, _)
\* Length of the common run a[i..] = b[j..] inside a[..ahi], b[..bhi].
RunLen(a, b, i, j, ahi, bhi) ==
    IF i <= ahi /\ j <= bhi /\ a[i] = b[j]
    THEN 1 + RunLen(a, b, i + 1, j + 1, ahi, bhi)
    ELSE 0

\* find_longest_match: the longest common block of a[alo..ahi] and
\* b[blo..bhi]; of the longest blocks the one that starts earliest in a,
\* and of those the one that starts earliest in b.
find_longest_match(a, b, alo, ahi, blo, bhi) ==
    LET starts == (alo..ahi) \X (blo..bhi)
        k(p)   == RunLen(a, b, p[1], p[2], ahi, bhi)
        best   == CHOOSE p \in starts :
                    \A q \in starts :
                       \/ k(p) > k(q)
                       \/ /\ k(p) = k(q)
                          /\ \/ p[1] < q[1]
                             \/ p[1] = q[1] /\ p[2] <= q[2]
    IN  [i |-> best[1], j |-> best[2], size |-> k(best)]

RECURSIVE matching_size(_, _, _, _, _, _)
\* Sum of the sizes of get_matching_blocks(): the longest block, then the
\* same on the pieces left and right of it.
matching_size(a, b, alo, ahi, blo, bhi) ==
    IF alo > ahi \/ blo > bhi
    THEN 0
    ELSE LET m == find_longest_match(a, b, alo, ahi, blo, bhi)
         IN  IF m.size = 0
             THEN 0
             ELSE m.size
                  + matching_size(a, b, alo, m.i - 1, blo, m.j - 1)
                  + matching_size(a, b, m.i + m.size, ahi, m.j + m.size, bhi)

\* ratio() = 2.0 * matches / (len(a) + len(b)), and 1.0 when both are empty.
ratio(a, b) ==
    IF Len(a) + Len(b) = 0
    THEN <<1, 1>>
    ELSE <<2 * matching_size(a, b, 1, Len(a), 1, Len(b)), Len(a) + Len(b)>>

\* r1 > r2 on ratios.
RatioGT(r1, r2) == r1[1] * r2[2] > r2[1] * r1[2]

\* ratio >= threshold, the threshold in hundredths.
RatioGE(r, pct) == r[1] * 100 >= pct * r[2]

\* ------------------------------------------------------------------------
\* recognition.py: check_watched_plates
\* ------------------------------------------------------------------------

\* The (None, None, None) result.
EmptyMatch == [plate |-> NoPlate, score |-> None, fuzzy |-> NoRatio]

\* _normalise_watched: the lower-cased watch-list as a set.
_normalise_watched(plates) == {lower(plates[i]) : i \in 1..Len(plates)}

\* The orders in which Python may iterate over a set of strings.
IterationOrders(S) ==
    {o \in [1..Cardinality(S) -> S] : \A x \in S : \E i \in DOMAIN o : o[i] = x}

\* candidate.get('plate') or candidate.get('candidate')
candidate_plate(c) == IF TruthyPlate(c.plate) THEN c.plate ELSE c.candidate

RECURSIVE scan_candidates_unskipped(_, _, _, _)
\* Fault variant of scan_candidates: index 0 is not skipped for
\* CodeProject.AI.
scan_candidates_unskipped(candidates, idx, runtime_config, watched_set) ==
    IF idx >= Len(candidates)
    THEN EmptyMatch
    ELSE LET c  == candidates[idx + 1]
             cp == candidate_plate(c)
         IN  IF TruthyPlate(cp) /\ lower(cp) \in watched_set
             THEN [plate |-> cp,
                   score |-> IF runtime_config.plate_recognizer
                             THEN c.score ELSE c.confidence,
                   fuzzy |-> NoRatio]
             ELSE scan_candidates_unskipped(candidates, idx + 1,
                                            runtime_config, watched_set)

RECURSIVE scan_candidates(_, _, _, _)
\* Step 2 of check_watched_plates: the loop over enumerate(candidates),
\* from Python index idx on.  EmptyMatch when the loop ends without return.
scan_candidates(candidates, idx, runtime_config, watched_set) ==
    IF idx >= Len(candidates)
    THEN EmptyMatch
    ELSE LET c  == candidates[idx + 1]
             cp == candidate_plate(c)
         IN  IF TruthyPlate(cp) /\ lower(cp) \in watched_set
             THEN IF runtime_config.plate_recognizer
                  THEN [plate |-> cp, score |-> c.score, fuzzy |-> NoRatio]
                  ELSE IF idx = 0
                       THEN scan_candidates(candidates, idx + 1,
                                            runtime_config, watched_set)
                       ELSE [plate |-> cp, score |-> c.confidence,
                             fuzzy |-> NoRatio]
             ELSE scan_candidates(candidates, idx + 1,
                                  runtime_config, watched_set)

RECURSIVE fuzzy_best_latest(_, _, _, _)
\* Fault variant of fuzzy_best: every entry with a positive ratio replaces
\* the best so far, so the last one iterated wins.
fuzzy_best_latest(plate_number, order, k, best) ==
    IF k > Len(order)
    THEN best
    ELSE LET score == ratio(lower(plate_number), order[k])
         IN  fuzzy_best_latest(plate_number, order, k + 1,
                               IF score[1] > 0
                               THEN [match |-> order[k], score |-> score]
                               ELSE best)

RECURSIVE fuzzy_best(_, _, _, _)
\* Step 3 loop: order is the iteration order over watched_set; best is
\* (best_match, best_score), replaced only by a strictly greater ratio.
fuzzy_best(plate_number, order, k, best) ==
    IF k > Len(order)
    THEN best
    ELSE LET score == ratio(lower(plate_number), order[k])
         IN  fuzzy_best(plate_number, order, k + 1,
                        IF RatioGT(score, best.score)
                        THEN [match |-> order[k], score |-> score]
                        ELSE best)

\* Fault variant of fuzzy_step: the ratio is returned in the score slot as
\* well as in the fuzzy slot.
fuzzy_step_scored(plate_number, runtime_config, order) ==
    IF runtime_config.fuzzy_match = 0
    THEN EmptyMatch
    ELSE LET best == fuzzy_best(plate_number, order, 1,
                                [match |-> NoPlate, score |-> <<0, 1>>])
         IN  IF TruthyPlate(best.match)
                /\ RatioGE(best.score, runtime_config.fuzzy_match)
             THEN [plate |-> best.match, score |-> best.score[1],
                   fuzzy |-> best.score]
             ELSE EmptyMatch

\* Step 3 of check_watched_plates.
fuzzy_step(plate_number, runtime_config, order) ==
    IF runtime_config.fuzzy_match = 0
    THEN EmptyMatch
    ELSE LET best == fuzzy_best(plate_number, order, 1,
                                [match |-> NoPlate, score |-> <<0, 1>>])
         IN  IF TruthyPlate(best.match)
                /\ RatioGE(best.score, runtime_config.fuzzy_match)
             THEN [plate |-> best.match, score |-> None, fuzzy |-> best.score]
             ELSE EmptyMatch

\* Fault variant of check_watched_plates: step 1 left out.
check_watched_plates_untiered(plate_number, candidates, runtime_config, order) ==
    LET watched_set == _normalise_watched(runtime_config.watched_plates)
    IN  IF ~TruthyPlate(plate_number)
        THEN EmptyMatch
        ELSE IF Len(runtime_config.watched_plates) = 0
        THEN EmptyMatch
        ELSE LET hit == scan_candidates(candidates, 0, runtime_config,
                                        watched_set)
             IN  IF TruthyPlate(hit.plate)
                 THEN hit
                 ELSE fuzzy_step(plate_number, runtime_config, order)

\* check_watched_plates(plate_number, candidates, runtime_config, logger).
\* order: the order in which the fuzzy loop iterates over the watched set.
check_watched_plates(plate_number, candidates, runtime_config, order) ==
    LET watched_set == _normalise_watched(runtime_config.watched_plates)
    IN  IF ~TruthyPlate(plate_number)
        THEN EmptyMatch
        ELSE IF Len(runtime_config.watched_plates) = 0
        THEN EmptyMatch
        ELSE IF lower(plate_number) \in watched_set
        THEN EmptyMatch
        ELSE LET hit == scan_candidates(candidates, 0, runtime_config,
                                        watched_set)
             IN  IF TruthyPlate(hit.plate)
                 THEN hit
                 ELSE fuzzy_step(plate_number, runtime_config, order)

\* ------------------------------------------------------------------------
\* recognition.py: the two recognisers
\* ------------------------------------------------------------------------

\* The (None, None, None, None) recognition result.
EmptyResult ==
    [plate_number |-> NoPlate, plate_score |-> None,
     watched_plate |-> NoPlate, fuzzy_score |-> NoRatio]

\* The tail shared by both recognisers: which score accompanies the plate.
select_result(plate_number, score, m) ==
    IF TruthyRatio(m.fuzzy)
    THEN [plate_number |-> plate_number, plate_score |-> score,
          watched_plate |-> m.plate, fuzzy_score |-> m.fuzzy]
    ELSE IF TruthyPlate(m.plate)
    THEN [plate_number |-> plate_number, plate_score |-> m.score,
          watched_plate |-> m.plate, fuzzy_score |-> NoRatio]
    ELSE [plate_number |-> plate_number, plate_score |-> score,
          watched_plate |-> NoPlate, fuzzy_score |-> NoRatio]

\* Lines 213-240: a 200/201 response of Plate Recognizer is parsed.
\* body.valid: response.json() succeeds; body.results: payload['results'].
parse_plate_recognizer(body, runtime_config, order) ==
    IF ~body.valid
    THEN [result |-> EmptyResult, err |-> 1]
    ELSE IF Len(body.results) = 0
    THEN [result |-> EmptyResult, err |-> 0]
    ELSE LET top_result == body.results[1]
             m == check_watched_plates(top_result.plate,
                                       top_result.candidates,
                                       runtime_config, order)
         IN  [result |-> select_result(top_result.plate, top_result.score, m),
              err |-> 0]

\* Fault variant of next_delay: the delay doubles without a ceiling.
next_delay_uncapped(delay_seconds) == delay_seconds * 2

\* min(delay_seconds * 2, 60)
next_delay(delay_seconds) ==
    IF delay_seconds * 2 < 60 THEN delay_seconds * 2 ELSE 60

\* One iteration of the for loop of recognize_with_plate_recognizer up to
\* the status checks, lines 166-211.  r is what session.post gave: r.status
\* is 0 for a RequestException and the HTTP status otherwise.  next tells
\* whether the function returns empty-handed, the loop continues, or the
\* body goes on to be parsed (lines 213-240, which always return); slept
\* holds the argument of time.sleep when the iteration sleeps.
loop_iteration(r, attempt, attempts, delay_seconds) ==
    LET give_up == [next |-> "return", err |-> 1, slept |-> <<>>,
                    delay_seconds |-> delay_seconds]
        retry == [next |-> "continue", err |-> 0, slept |-> <<delay_seconds>>,
                  delay_seconds |-> next_delay(delay_seconds)]
    IN  IF r.status = 0
        THEN IF attempt = attempts THEN give_up ELSE retry
        ELSE IF r.status = 429
        THEN retry
        ELSE IF r.status \notin {200, 201}
        THEN IF attempt = attempts THEN give_up ELSE retry
        ELSE [next |-> "parse", err |-> 0, slept |-> <<>>,
              delay_seconds |-> delay_seconds]

RECURSIVE plate_recognizer_loop(_, _, _, _, _, _, _)
\* The for loop of recognize_with_plate_recognizer from iteration attempt
\* on, exchange[attempt] being what the post of that iteration gives, and
\* lines 242-243 when the loop runs out.  sleeps collects the time.sleep
\* arguments in order.
plate_recognizer_loop(exchange, attempt, attempts, delay_seconds, sleeps, runtime_config, order) ==
    IF attempt > attempts
    THEN [result |-> EmptyResult, err |-> 0, posts |-> attempts,
          sleeps |-> sleeps]
    ELSE LET it == loop_iteration(exchange[attempt], attempt, attempts,
                                  delay_seconds)
         IN  IF it.next = "parse"
             THEN LET p == parse_plate_recognizer(exchange[attempt].body,
                                                  runtime_config, order)
                  IN  [result |-> p.result, err |-> p.err, posts |-> attempt,
                       sleeps |-> sleeps]
             ELSE IF it.next = "return"
             THEN [result |-> EmptyResult, err |-> it.err, posts |-> attempt,
                   sleeps |-> sleeps]
             ELSE plate_recognizer_loop(exchange, attempt + 1, attempts,
                      it.delay_seconds, sleeps \o it.slept,
                      runtime_config, order)

\* recognize_with_plate_recognizer: attempts = max(1, max_retries + 1),
\* delay_seconds starts at 1.
recognize_with_plate_recognizer(exchange, runtime_config, order) ==
    LET attempts == IF runtime_config.max_retries + 1 > 1
                    THEN runtime_config.max_retries + 1 ELSE 1
    IN  plate_recognizer_loop(exchange, 1, attempts, 1, <<>>,
                              runtime_config, order)

\* recognize_with_code_project: one post; a RequestException (status 0) or
\* a status that raise_for_status rejects gives the empty result, as does
\* an invalid JSON body or an empty predictions list.
recognize_with_code_project(exchange, runtime_config, order) ==
    LET r == exchange[1]
    IN  IF r.status = 0 \/ r.status >= 400
        THEN [result |-> EmptyResult, err |-> 0, posts |-> 1, sleeps |-> <<>>]
        ELSE IF ~r.body.valid \/ Len(r.body.results) = 0
        THEN [result |-> EmptyResult, err |-> 0, posts |-> 1, sleeps |-> <<>>]
        ELSE LET top_prediction == r.body.results[1]
                 m == check_watched_plates(top_prediction.plate,
                                           r.body.results,
                                           runtime_config, order)
             IN  [result |-> select_result(top_prediction.plate,
                                           top_prediction.confidence, m),
                  err |-> 0, posts |-> 1, sleeps |-> <<>>]

\* ------------------------------------------------------------------------
\* pipeline.py: get_plate
\* ------------------------------------------------------------------------

\* Fault variant of backends_called: `if` where the code has `elif`.
backends_called_both(config) ==
    (IF config.plate_recognizer THEN {"plate_recognizer"} ELSE {})
    \cup (IF config.code_project THEN {"code_project"} ELSE {})

\* Lines 26-49: the recognisers that one get_plate call posts to.
backends_called(config) ==
    IF config.plate_recognizer THEN {"plate_recognizer"}
    ELSE IF config.code_project THEN {"code_project"}
    ELSE {}

\* Lines 26-49: the backend is chosen by the presence of its config block;
\* the result of the recogniser called, before the score floor.
recognize(exchange, config, order) ==
    IF "plate_recognizer" \in backends_called(config)
    THEN recognize_with_plate_recognizer(exchange, config, order).result
    ELSE IF "code_project" \in backends_called(config)
    THEN recognize_with_code_project(exchange, config, order).result
    ELSE EmptyResult

\* Fault variant of score_too_low: the comparison turned round.
score_too_low_inverted(min_score, plate_score) ==
    Truthy(min_score) /\ Truthy(plate_score) /\ plate_score > min_score

\* Line 52: bool(min_score and plate_score and plate_score < min_score)
score_too_low(min_score, plate_score) ==
    Truthy(min_score) /\ Truthy(plate_score) /\ plate_score < min_score

\* Lines 51-58: the score floor applied to a recognition outcome.
apply_score_floor(r, config) ==
    IF ~TruthyRatio(r.fuzzy_score) /\ score_too_low(config.min_score, r.plate_score)
    THEN EmptyResult
    ELSE r

\* get_plate(snapshot, config=..., ...)
get_plate(exchange, config, order) ==
    apply_score_floor(recognize(exchange, config, order), config)

\* ------------------------------------------------------------------------
\* events.py: the tracker.  CURRENT_EVENTS is a function whose domain is the
\* set of tracked event ids; every operation runs under _CURRENT_EVENTS_LOCK.
\* ------------------------------------------------------------------------

\* Fault variant of track_event_start: an assignment where the code has
\* setdefault, so a tracked event starts again at 0.
track_event_restart(events, event_id) ==
    [e \in DOMAIN events \cup {event_id} |->
        IF e = event_id THEN 0 ELSE events[e]]

\* Fault variant of clear_event: the key is not deleted.
clear_event_skipped(events, event_id) == events

\* Fault variant of clear_event: reset() where the code deletes one key.
clear_event_reset(events, event_id) == [e \in {} |-> 0]

\* CURRENT_EVENTS.setdefault(event_id, 0)
track_event_start(events, event_id) ==
    IF event_id \in DOMAIN events
    THEN events
    ELSE [e \in DOMAIN events \cup {event_id} |->
             IF e = event_id THEN 0 ELSE events[e]]

is_event_tracked(events, event_id) == event_id \in DOMAIN events

get_event_attempts(events, event_id) ==
    IF event_id \in DOMAIN events THEN events[event_id] ELSE 0

increment_event_attempt(events, event_id) ==
    [e \in DOMAIN events \cup {event_id} |->
        IF e = event_id THEN get_event_attempts(events, event_id) + 1
        ELSE events[e]]

clear_event(events, event_id) ==
    IF event_id \in DOMAIN events
    THEN [e \in DOMAIN events \ {event_id} |-> events[e]]
    ELSE events

\* ------------------------------------------------------------------------
\* storage.py: the plates table, a sequence of rows in insertion order.
\* ------------------------------------------------------------------------

\* Fault variant of has_processed_event: the lookup finds nothing.
has_processed_nothing(rows, frigate_event_id) == FALSE

\* SELECT 1 FROM plates WHERE frigate_event = ?
has_processed_event(rows, frigate_event_id) ==
    \E i \in 1..Len(rows) : rows[i].frigate_event = frigate_event_id

\* The constraints of CREATE TABLE plates: every column NOT NULL,
\* frigate_event UNIQUE.
violates_not_null(score, plate_number) ==
    score = None \/ plate_number = NoPlate

\* Fault variant of violates_unique: a table created without the UNIQUE
\* constraint on frigate_event.
no_unique_index(rows, frigate_event_id) == FALSE

violates_unique(rows, frigate_event_id) ==
    \E i \in 1..Len(rows) : rows[i].frigate_event = frigate_event_id

\* insert_plate.  fault: the statement fails with an sqlite3.Error that is
\* not an IntegrityError (locked or unreadable database).  ret is "True",
\* "False" (IntegrityError caught) or "raise" (the sqlite3.Error re-raised).
insert_plate(rows, fault, detection_time, score, plate_number, frigate_event_id, camera_name) ==
    IF fault
    THEN [rows |-> rows, ret |-> "raise"]
    ELSE IF violates_not_null(score, plate_number)
            \/ violates_unique(rows, frigate_event_id)
    THEN [rows |-> rows, ret |-> "False"]
    ELSE [rows |-> Append(rows,
                     [id |-> Len(rows) + 1,
                      detection_time |-> detection_time,
                      score |-> score,
                      plate_number |-> plate_number,
                      frigate_event |-> frigate_event_id,
                      camera_name |-> camera_name]),
          ret |-> "True"]

\* ------------------------------------------------------------------------
\* event_filters.py
\* ------------------------------------------------------------------------

DEFAULT_OBJECTS == <<"car", "motorcycle", "bus">>

\* x in list
InSeq(x, seq) == \E i \in 1..Len(seq) : seq[i] = x

\* Fault variant of check_first_message: the flag is ignored.
filter_never_first(flag) == FALSE

\* check_first_message(first_message, logger)
filter_check_first_message(flag) == flag

\* config['frigate'].get('objects', DEFAULT_OBJECTS)
valid_objects(config) ==
    IF config.has_objects THEN config.objects ELSE DEFAULT_OBJECTS

\* Fault variant of check_invalid_event: the label is not looked at.
check_invalid_event_unlabelled(config, before_data, after_data, is_tracked) ==
    \/ /\ Len(config.zones) > 0
       /\ ~\E i \in 1..Len(config.zones) :
              InSeq(config.zones[i], after_data.current_zones)
    \/ /\ Len(config.camera) > 0
       /\ ~InSeq(after_data.camera, config.camera)
    \/ /\ before_data.top_score = after_data.top_score
       /\ is_tracked
       /\ ~config.frigate_plus

\* Fault variant of check_invalid_event: the top scores are not compared.
check_invalid_event_unscored(config, before_data, after_data, is_tracked) ==
    \/ /\ Len(config.zones) > 0
       /\ ~\E i \in 1..Len(config.zones) :
              InSeq(config.zones[i], after_data.current_zones)
    \/ /\ Len(config.camera) > 0
       /\ ~InSeq(after_data.camera, config.camera)
    \/ ~InSeq(after_data.label, valid_objects(config))

\* check_invalid_event: TRUE when the event is to be skipped.
check_invalid_event(config, before_data, after_data, is_tracked) ==
    LET matching_zone ==
            IF Len(config.zones) > 0
            THEN \E i \in 1..Len(config.zones) :
                    InSeq(config.zones[i], after_data.current_zones)
            ELSE TRUE
        matching_camera ==
            IF Len(config.camera) > 0
            THEN InSeq(after_data.camera, config.camera)
            ELSE TRUE
    IN  IF ~(matching_zone /\ matching_camera)
        THEN TRUE
        ELSE IF ~InSeq(after_data.label, valid_objects(config))
        THEN TRUE
        ELSE IF before_data.top_score = after_data.top_score
                /\ is_tracked
                /\ ~config.frigate_plus
        THEN TRUE
        ELSE FALSE

\* get_license_plate_attribute: the attributes labelled license_plate, or
\* None (here the empty list, its only use being `... or []`).
get_license_plate_attribute(config, after_data) ==
    IF config.frigate_plus
    THEN SelectSeq(after_data.current_attributes,
                   LAMBDA a : a.label = "license_plate")
    ELSE <<>>

\* Fault variant of is_valid_license_plate: the score is not compared.
is_valid_license_plate_unscored(config, after_data) ==
    Len(get_license_plate_attribute(config, after_data)) > 0

\* Fault variant of is_valid_license_plate: the gate lets every event pass.
is_valid_license_plate_always(config, after_data) == TRUE

\* is_valid_license_plate; attribute.get('score', 0) of an absent score is 0.
is_valid_license_plate(config, after_data) ==
    LET attributes == get_license_plate_attribute(config, after_data)
    IN  IF Len(attributes) = 0
        THEN FALSE
        ELSE LET score == IF attributes[1].score = None
                          THEN 0 ELSE attributes[1].score
             IN  ~(score < config.license_plate_min_score)

\* ------------------------------------------------------------------------
\* messaging.py and app.py helpers
\* ------------------------------------------------------------------------

\* sublabel[:20]
first20(s) == IF Len(s) > 20 THEN SubSeq(s, 1, 20) ELSE s

\* set_sublabel(frigate_url, frigate_event_id, sublabel, score).  http is
\* "exc" when session.post raises a RequestException, else the status.
\* posted: the sub label sent; raised: "{:.1%}".format(score) raises
\* TypeError on a None score, which happens only after a response arrived.
set_sublabel(sublabel, score, http) ==
    [posted |-> upper(first20(sublabel)),
     raised |-> (http # "exc" /\ score = None)]

\* Fault variant of publish_plate_message: the watch-list match is left
\* out of the message.
publish_plate_message_plain(config, plate_number, plate_score, frigate_event_id, after_data, formatted_start_time, watched_plate, fuzzy_score) ==
    IF ~config.return_topic
    THEN <<>>
    ELSE << [plate_number |-> upper(plate_number),
             score |-> plate_score,
             frigate_event_id |-> frigate_event_id,
             camera_name |-> after_data.camera,
             start_time |-> formatted_start_time,
             is_watched_plate |-> FALSE] >>

\* publish_plate_message: the sequence of messages published (none when
\* return_topic is not configured).
publish_plate_message(config, plate_number, plate_score, frigate_event_id, after_data, formatted_start_time, watched_plate, fuzzy_score) ==
    IF ~config.return_topic
    THEN <<>>
    ELSE IF TruthyPlate(watched_plate)
    THEN << [plate_number |-> upper(watched_plate),
             score |-> plate_score,
             frigate_event_id |-> frigate_event_id,
             camera_name |-> after_data.camera,
             start_time |-> formatted_start_time,
             fuzzy_score |-> fuzzy_score,
             original_plate |-> upper(plate_number),
             is_watched_plate |-> TRUE] >>
    ELSE << [plate_number |-> upper(plate_number),
             score |-> plate_score,
             frigate_event_id |-> frigate_event_id,
             camera_name |-> after_data.camera,
             start_time |-> formatted_start_time,
             is_watched_plate |-> FALSE] >>

\* Fault variant of plate_recognised: the plate number is not looked at.
plate_recognised_always(plate_number) == TRUE

\* Line 423: if plate_number
plate_recognised(plate_number) == TruthyPlate(plate_number)

\* Fault variant of saved_plate_number: the watch-list match is ignored.
saved_plate_raw(r) == r.plate_number

\* Line 421: saved_plate_number = watched_plate if watched_plate else plate_number
saved_plate_number(r) ==
    IF TruthyPlate(r.watched_plate) THEN r.watched_plate ELSE r.plate_number

\* Line 435 and 437: the outcome of the insert.
insert_outcome(ret) ==
    IF ret = "True" THEN "success"
    ELSE IF ret = "False" THEN "duplicate_event"
    ELSE "db_error"

\* The values of the result label of processed_events_counter.
Outcomes ==
    {"first_message", "invalid_event", "duplicate_event",
     "invalid_license_plate", "no_snapshot", "max_attempts", "no_plate",
     "success", "db_error", "error"}

\* ------------------------------------------------------------------------
\* The environment of the pipeline: configurations, messages, responses
\* ------------------------------------------------------------------------

\* The worker threads of the ThreadPoolExecutor.
Workers == {"w1", "w2"}

\* The event identifiers Frigate sends.
EventIds == {"evt-1", "evt-2"}

\* Messages delivered in one concurrent run, and in one sequential run.
MaxMessages == 3

MaxSeqMessages == 4

AB12CD == <<"A", "B", "1", "2", "C", "D">>
ABC12D == <<"A", "B", "C", "1", "2", "D">>
ABC123 == <<"A", "B", "C", "1", "2", "3">>
abc123 == <<"a", "b", "c", "1", "2", "3">>
XYZ999 == <<"X", "Y", "Z", "9", "9", "9">>
DEF456 == <<"D", "E", "F", "4", "5", "6">>
def456 == <<"d", "e", "f", "4", "5", "6">>

\* The retry count that recognize_with_plate_recognizer reads from the
\* plate_recognizer configuration.  PlateRecognizerConfig declares no such
\* field; the specification names it the configured max-retries, and zero
\* retries is one attempt.
max_retries == 0

\* Plate Recognizer, camera front, no zones, min_score 0.8, no watch-list.
ScenarioConfig ==
    [plate_recognizer |-> TRUE, code_project |-> FALSE,
     max_retries |-> max_retries,
     frigate_plus |-> FALSE, license_plate_min_score |-> 0,
     camera |-> <<"front">>, zones |-> <<>>,
     has_objects |-> TRUE, objects |-> DEFAULT_OBJECTS,
     min_score |-> 80, save_snapshots |-> FALSE,
     always_save_snapshot |-> FALSE,
     watched_plates |-> <<>>, fuzzy_match |-> 0,
     max_attempts |-> 0, return_topic |-> TRUE]

\* Plate Recognizer with a watch-list, fuzzy matching and an attempt ceiling.
WatchConfig ==
    [ScenarioConfig EXCEPT !.camera = <<>>,
                           !.watched_plates = <<abc123>>,
                           !.fuzzy_match = 80,
                           !.max_attempts = 1,
                           !.save_snapshots = TRUE]

\* CodeProject.AI with Frigate+ attribute scoring.
PlusConfig ==
    [ScenarioConfig EXCEPT !.plate_recognizer = FALSE,
                           !.code_project = TRUE,
                           !.frigate_plus = TRUE,
                           !.license_plate_min_score = 50,
                           !.min_score = None,
                           !.max_attempts = 2,
                           !.watched_plates = <<def456>>]

\* Plate Recognizer restricted to two zones.
ZoneConfig == [ScenarioConfig EXCEPT !.zones = <<"driveway", "street">>]

\* Plate Recognizer, a snapshot saved after every call that came to
\* recognition.
AlwaysConfig ==
    [ScenarioConfig EXCEPT !.save_snapshots = TRUE,
                           !.always_save_snapshot = TRUE]

\* The configurations of the sequential runs, and of the concurrent runs.
Configs == {ScenarioConfig, WatchConfig, PlusConfig, ZoneConfig, AlwaysConfig}

PoolConfig == [WatchConfig EXCEPT !.save_snapshots = FALSE]

PoolConfigs == {PoolConfig}

\* One entry of results (Plate Recognizer) or predictions (CodeProject.AI).
EntryA(plate, score, candidates) ==
    [plate |-> plate, candidate |-> NoPlate, score |-> score,
     confidence |-> None, candidates |-> candidates]

EntryB(plate, confidence) ==
    [plate |-> plate, candidate |-> NoPlate, score |-> None,
     confidence |-> confidence, candidates |-> <<>>]

Entry(config, plate, score) ==
    IF config.plate_recognizer THEN EntryA(plate, score, <<>>)
    ELSE EntryB(plate, score)

\* The results (or predictions) for a top plate with one alternate reading:
\* a candidate of the top result for Plate Recognizer, a second prediction
\* for CodeProject.AI.
WithAlternate(config, plate, score, alternate, alternate_score) ==
    IF config.plate_recognizer
    THEN <<EntryA(plate, score, <<EntryA(alternate, alternate_score, <<>>)>>)>>
    ELSE <<EntryB(plate, score), EntryB(alternate, alternate_score)>>

\* One HTTP exchange: status 0 is a RequestException.
Failed(status) == [status |-> status, body |-> [valid |-> FALSE, results |-> <<>>]]
Answer(results) == [status |-> 200, body |-> [valid |-> TRUE, results |-> results]]

\* A 200 response whose body is not JSON.
InvalidJson == [status |-> 200, body |-> [valid |-> FALSE, results |-> <<>>]]

\* What the recognition backend may answer to one get_plate call: a
\* transport error, a plate with a high, a low, a zero and an absent score,
\* a server error, a body that is not JSON, a body without results (the key
\* missing or the list empty), a result without a plate, and a plate with
\* an alternate reading.
Exchanges(config) ==
    { <<Failed(0)>>,
      <<Answer(<<Entry(config, AB12CD, 91)>>)>>,
      <<Answer(<<Entry(config, ABC12D, 60)>>)>>,
      <<Answer(<<Entry(config, AB12CD, 0)>>)>>,
      <<Answer(<<Entry(config, AB12CD, None)>>)>>,
      <<Failed(500)>>,
      <<InvalidJson>>,
      <<Answer(<<>>)>>,
      <<Answer(<<Entry(config, NoPlate, 91)>>)>>,
      <<Answer(WithAlternate(config, AB12CD, 91,
                             IF config.plate_recognizer THEN ABC123 ELSE DEF456,
                             85))>> }

\* The answers in the concurrent runs.
PoolExchanges(config) ==
    { <<Failed(0)>>,
      <<Answer(<<Entry(config, AB12CD, 91)>>)>>,
      <<Answer(<<Entry(config, AB12CD, None)>>)>> }

LicensePlate(score) == [label |-> "license_plate", score |-> score]

\* An MQTT message whose payload parses and carries the keys read.
Message(id, type, camera, has_snapshot, before_score, attributes) ==
    [valid |-> TRUE, id |-> id, type |-> type, camera |-> camera,
     label |-> "car", current_zones |-> <<>>,
     has_snapshot |-> has_snapshot,
     before_top_score |-> before_score, top_score |-> 80,
     current_attributes |-> attributes, start_time |-> 1]

\* A payload json.loads rejects (or one without after.id).
Malformed ==
    [Message("evt-1", "update", "front", TRUE, 70, <<>>) EXCEPT !.valid = FALSE]

\* An update of evt-1 whose object is in the given zones, and one whose
\* object has the given label.
InZone(zones) ==
    [Message("evt-1", "update", "front", TRUE, 70, <<LicensePlate(90)>>)
        EXCEPT !.current_zones = zones]

Labelled(label) ==
    [Message("evt-1", "update", "front", TRUE, 70, <<LicensePlate(90)>>)
        EXCEPT !.label = label]

\* The payloads that arrive: updates and terminal messages of evt-1 with a
\* changed or an unchanged top_score, with and without a snapshot, on a
\* configured and on another camera, with a weak and without a
\* license_plate attribute, inside a zone, with the label person, an update of
\* a second event, and a malformed payload.
Messages ==
    { Message("evt-1", type, "front", TRUE, before, <<LicensePlate(90)>>) :
        type \in {"update", "end"}, before \in {70, 80} }
    \cup { Message("evt-1", "update", "front", FALSE, 70, <<LicensePlate(90)>>),
           Message("evt-2", "update", "front", TRUE, 70, <<LicensePlate(90)>>),
           Message("evt-1", "update", "back", TRUE, 70, <<LicensePlate(90)>>),
           Message("evt-1", "update", "front", TRUE, 70, <<LicensePlate(30)>>),
           Message("evt-1", "update", "front", TRUE, 70, <<>>),
           InZone(<<"yard", "street">>),
           Labelled("person"),
           Malformed }

\* The payloads in the concurrent runs.
PoolMessages ==
    { Message("evt-1", "update", "front", TRUE, 70, <<LicensePlate(90)>>),
      Message("evt-1", "end", "front", TRUE, 70, <<LicensePlate(90)>>),
      Message("evt-1", "update", "front", FALSE, 70, <<LicensePlate(90)>>),
      Message("evt-2", "update", "front", TRUE, 70, <<LicensePlate(90)>>) }

\* message.payload before json.loads has looked at it.
Unparsed == [valid |-> FALSE]

\* ------------------------------------------------------------------------
\* State
\* ------------------------------------------------------------------------

VARIABLES
    config,                    \* app.config, fixed by load_config
    first_message,             \* app.first_message
    CURRENT_EVENTS,            \* events.CURRENT_EVENTS
    plates,                    \* the plates table
    delivered,                 \* messages handed to the executor so far
    pc,                        \* where each worker is in process_message
    msg,                       \* the message each worker processes
    loc,                       \* the locals of _process_message_inner
    gh,                        \* what each call has done so far (history)
    raced,                     \* pairs of calls that raced to insert (history)
    successes,                 \* 'success' results per event id (history)
    probe,                     \* one call of a pure helper: arguments and result
    main                       \* the main thread, its flag and the executor's queue

vars == <<config, first_message, CURRENT_EVENTS, plates, delivered,
          pc, msg, loc, gh, raced, successes, probe, main>>

\* An empty dict.
EmptyDict == [e \in {} |-> 0]

InitLoc ==
    [should_skip |-> FALSE, snapshot |-> FALSE, rec |-> EmptyResult,
     result |-> "none"]

InitGh ==
    [first |-> FALSE, trace |-> <<>>, reported |-> <<>>, escaped |-> FALSE,
     raised |-> FALSE, published |-> <<>>, sublabels |-> <<>>,
     row_before |-> FALSE, attempts_before |-> 0,
     attempts_at_check |-> None, raw |-> EmptyResult,
     insert_ret |-> "none", faulted |-> FALSE,
     filtered |-> FALSE, tracked |-> FALSE, replay |-> FALSE,
     tracked_before |-> FALSE, prev |-> <<>>]

\* No helper call is under examination.
NoProbe == [done |-> FALSE]

\* main() inside run_mqtt_client's loop, _shutdown_requested False, nothing
\* waiting in the executor's queue.
MainLoop ==
    [at |-> "loop", _shutdown_requested |-> FALSE, queued |-> 0,
     pending_at_signal |-> 0]

InitWith(configs) ==
    /\ config \in configs
    /\ first_message = TRUE
    /\ CURRENT_EVENTS = EmptyDict
    /\ plates = <<>>
    /\ delivered = 0
    /\ pc = [w \in Workers |-> "idle"]
    /\ msg = [w \in Workers |-> Unparsed]
    /\ loc = [w \in Workers |-> InitLoc]
    /\ gh = [w \in Workers |-> InitGh]
    /\ raced = {}
    /\ successes = [e \in EventIds |-> 0]
    /\ probe = NoProbe
    /\ main = MainLoop

\* The state after main() has loaded the configuration.
Init == InitWith(PoolConfigs)

InitSeq == InitWith(Configs)

\* ------------------------------------------------------------------------
\* app.py: process_message and _process_message_inner, one action per
\* access to shared state or call of a collaborator.
\* ------------------------------------------------------------------------

\* Fault variant of process_message: try/finally without the except
\* clause, so the exception leaves the function after the counter is fed.
process_message_uncaught(returned, raised) ==
    [reported |-> <<IF raised THEN "error" ELSE returned>>,
     escaped |-> raised]

\* process_message: result = 'error'; try: result = inner(); except
\* Exception: log; finally: counter.inc().  returned is the value inner
\* returned, raised tells that it raised instead.
process_message(returned, raised) ==
    [reported |-> <<IF raised THEN "error" ELSE returned>>,
     escaped |-> FALSE]

\* What the histories record: the rows stored for an event identifier and
\* the attempts counted for it (0 when there is no record).
Rows(rows, frigate_event_id) ==
    {i \in 1..Len(rows) : rows[i].frigate_event = frigate_event_id}

Count(events, event_id) ==
    IF event_id \in DOMAIN events THEN events[event_id] ELSE 0

\* The call of worker w ends: inner returned `returned` or raised.
Finish(w, returned, raised, l, g) ==
    LET p == process_message(returned, raised)
    IN  /\ pc' = [pc EXCEPT ![w] = "done"]
        /\ loc' = [loc EXCEPT ![w] = l]
        /\ gh' = [gh EXCEPT ![w] =
                    [g EXCEPT !.reported = @ \o p.reported,
                              !.escaped = p.escaped,
                              !.raised = raised]]
        /\ successes' =
              IF p.reported = <<"success">>
              THEN [successes EXCEPT ![msg[w].id] = @ + 1]
              ELSE successes

\* The call of worker w goes on at `next`.
Goto(w, next, l, g) ==
    /\ pc' = [pc EXCEPT ![w] = next]
    /\ loc' = [loc EXCEPT ![w] = l]
    /\ gh' = [gh EXCEPT ![w] = g]
    /\ UNCHANGED successes

Logged(g, call) == [g EXCEPT !.trace = Append(@, call)]

\* on_message: the executor runs process_message(message) on a free worker.
\* The payload is opaque until json.loads reads it.  What becomes of the
\* executor's queue is said by the caller.
Start(w, max) ==
    /\ pc[w] \in {"idle", "done"}
    /\ delivered < max
    /\ msg' = [msg EXCEPT ![w] = Unparsed]
    /\ gh' = [gh EXCEPT ![w] = [InitGh EXCEPT !.first = (delivered = 0)]]
    /\ raced' = {p \in raced : w \notin p}
    /\ delivered' = delivered + 1
    /\ pc' = [pc EXCEPT ![w] = "first_read"]
    /\ loc' = [loc EXCEPT ![w] = InitLoc]
    /\ UNCHANGED <<probe, config, first_message, CURRENT_EVENTS, plates, successes>>

\* on_message for a payload the broker delivers a second time: the worker
\* is handed again the message it has just processed; prev keeps the
\* outcome of the call before.
Redeliver(w, max) ==
    /\ pc[w] = "done"
    /\ delivered < max
    /\ msg[w] # Unparsed
    /\ gh' = [gh EXCEPT ![w] = [InitGh EXCEPT !.replay = TRUE,
                                             !.prev = gh[w].reported]]
    /\ raced' = {p \in raced : w \notin p}
    /\ delivered' = delivered + 1
    /\ pc' = [pc EXCEPT ![w] = "first_read"]
    /\ loc' = [loc EXCEPT ![w] = InitLoc]
    /\ UNCHANGED <<main, probe, config, first_message, CURRENT_EVENTS, plates, successes, msg>>

\* check_first_message, line 275: should_skip = filter(first_message)
CheckFirstRead(w) ==
    /\ pc[w] = "first_read"
    /\ Goto(w, "first_write",
            [loc[w] EXCEPT !.should_skip = filter_check_first_message(first_message)],
            gh[w])
    /\ UNCHANGED <<main, probe, config, first_message, CURRENT_EVENTS, plates, delivered,
                   msg, raced>>

\* check_first_message, line 276: first_message = False; then lines 367-378:
\* return 'first_message', or parse the payload (json.loads and
\* after_data['id'] raise on a malformed payload).
CheckFirstWrite(w, messages) ==
    /\ pc[w] = "first_write"
    /\ first_message' = FALSE
    /\ IF loc[w].should_skip
       THEN \E m \in (IF gh[w].replay THEN {msg[w]} ELSE messages) :
               /\ msg' = [msg EXCEPT ![w] = m]
               /\ Finish(w, "first_message", FALSE, loc[w], gh[w])
       ELSE \E m \in (IF gh[w].replay THEN {msg[w]} ELSE messages) :
               /\ msg' = [msg EXCEPT ![w] = m]
               /\ IF ~m.valid
                  THEN Finish(w, "none", TRUE, loc[w], Logged(gh[w], "parse"))
                  ELSE Goto(w, "end_check", loc[w],
                            [Logged(gh[w], "parse") EXCEPT
                                !.row_before = Rows(plates, m.id) # {},
                                !.attempts_before = Count(CURRENT_EVENTS, m.id),
                                !.tracked_before = m.id \in DOMAIN CURRENT_EVENTS])
    /\ UNCHANGED <<main, probe, config, CURRENT_EVENTS, plates, delivered, raced>>

\* Lines 380-384: a terminal message clears the tracked event.  The test
\* and clear_event take the lock one after the other; clear_event tests
\* again under the lock, so the two are one step.
EndSighting(w) ==
    /\ pc[w] = "end_check"
    /\ IF msg[w].type = "end"
       THEN IF is_event_tracked(CURRENT_EVENTS, msg[w].id)
            THEN /\ CURRENT_EVENTS' = clear_event(CURRENT_EVENTS, msg[w].id)
                 /\ Goto(w, "filter", loc[w],
                         Logged(Logged(gh[w], "is_event_tracked"), "clear_event"))
            ELSE /\ UNCHANGED CURRENT_EVENTS
                 /\ Goto(w, "filter", loc[w], Logged(gh[w], "is_event_tracked"))
       ELSE /\ UNCHANGED CURRENT_EVENTS
            /\ Goto(w, "filter", loc[w], gh[w])
    /\ UNCHANGED <<main, probe, config, first_message, plates, delivered, msg, raced>>

\* Lines 386-387: check_invalid_event reads is_event_tracked.
Filter(w) ==
    /\ pc[w] = "filter"
    /\ LET g == [Logged(gh[w], "is_event_tracked") EXCEPT
                    !.filtered = TRUE,
                    !.tracked = (msg[w].id \in DOMAIN CURRENT_EVENTS)]
       IN  IF check_invalid_event(config,
                                  [top_score |-> msg[w].before_top_score],
                                  msg[w],
                                  is_event_tracked(CURRENT_EVENTS, msg[w].id))
           THEN Finish(w, "invalid_event", FALSE, loc[w], g)
           ELSE Goto(w, "dedup", loc[w], g)
    /\ UNCHANGED <<main, probe, config, first_message, CURRENT_EVENTS, plates, delivered,
                   msg, raced>>

\* Lines 389-394: is_duplicate_event (has_processed_event may raise an
\* sqlite3.Error, which nothing in the inner function catches), then the
\* license plate attribute gate.
Dedup(w) ==
    /\ pc[w] = "dedup"
    /\ \E fault \in BOOLEAN :
          LET g == Logged(gh[w], "has_processed_event")
          IN  IF fault
              THEN Finish(w, "none", TRUE, loc[w], [g EXCEPT !.faulted = TRUE])
              ELSE IF has_processed_event(plates, msg[w].id)
              THEN Finish(w, "duplicate_event", FALSE, loc[w], g)
              ELSE IF config.frigate_plus /\ ~is_valid_license_plate(config, msg[w])
              THEN Finish(w, "invalid_license_plate", FALSE, loc[w], g)
              ELSE Goto(w, "track", loc[w], g)
    /\ UNCHANGED <<main, probe, config, first_message, CURRENT_EVENTS, plates, delivered,
                   msg, raced>>

\* Lines 396-402: a non-terminal message starts tracking (track_event_start
\* is setdefault under the lock, so the test before it adds nothing); then
\* get_snapshot when has_snapshot: fetch_snapshot returns None on a
\* RequestException or a status other than 200.
Track(w) ==
    /\ pc[w] = "track"
    /\ LET g1 == IF msg[w].type # "end"
                 THEN IF ~is_event_tracked(CURRENT_EVENTS, msg[w].id)
                      THEN Logged(Logged(gh[w], "is_event_tracked"),
                                  "track_event_start")
                      ELSE Logged(gh[w], "is_event_tracked")
                 ELSE gh[w]
       IN  /\ CURRENT_EVENTS' =
                IF msg[w].type # "end"
                THEN track_event_start(CURRENT_EVENTS, msg[w].id)
                ELSE CURRENT_EVENTS
           /\ IF msg[w].has_snapshot
              THEN \E got \in BOOLEAN :
                      Goto(w, IF got THEN "attempts" ELSE "no_snapshot",
                           [loc[w] EXCEPT !.snapshot = got],
                           Logged(g1, "get_snapshot"))
              ELSE Goto(w, "no_snapshot", loc[w], g1)
    /\ UNCHANGED <<main, probe, config, first_message, plates, delivered, msg, raced>>

\* Lines 404-405: _clear_event(frigate_event_id); return 'no_snapshot'
NoSnapshot(w) ==
    /\ pc[w] = "no_snapshot"
    /\ CURRENT_EVENTS' = clear_event(CURRENT_EVENTS, msg[w].id)
    /\ Finish(w, "no_snapshot", FALSE, loc[w], Logged(gh[w], "clear_event"))
    /\ UNCHANGED <<main, probe, config, first_message, plates, delivered, msg, raced>>

\* Fault variant of attempts_exhausted: > where the code has >=.
attempts_exhausted_strict(max_attempts, attempts) ==
    max_attempts > 0 /\ attempts > max_attempts

\* Line 410: max_attempts > 0 and _get_event_attempts(id) >= max_attempts
attempts_exhausted(max_attempts, attempts) ==
    max_attempts > 0 /\ attempts >= max_attempts

\* Lines 409-414: the attempt ceiling.
Attempts(w) ==
    /\ pc[w] = "attempts"
    /\ LET max_attempts == config.max_attempts
           n == get_event_attempts(CURRENT_EVENTS, msg[w].id)
           g == [Logged(gh[w], "get_event_attempts") EXCEPT
                    !.attempts_at_check = Count(CURRENT_EVENTS, msg[w].id)]
       IN  IF attempts_exhausted(max_attempts, n)
           THEN Finish(w, "max_attempts", FALSE, loc[w], g)
           ELSE Goto(w, "increment", loc[w], g)
    /\ UNCHANGED <<main, probe, config, first_message, CURRENT_EVENTS, plates, delivered,
                   msg, raced>>

\* Lines 454-463: save_image when a plate was saved or always_save_snapshot,
\* then return result.  save_image returns at once unless save_snapshots is
\* set; otherwise opening, drawing or writing the image may raise.
SaveAndReturn(w, l, g) ==
    IF TruthyPlate(saved_plate_number(l.rec)) \/ config.always_save_snapshot
    THEN IF config.save_snapshots
         THEN \E raises \in BOOLEAN :
                 Finish(w, l.result, raises, l,
                        [Logged(g, "save_image") EXCEPT !.faulted = @ \/ raises])
         ELSE Finish(w, l.result, FALSE, l, Logged(g, "save_image"))
    ELSE Finish(w, l.result, FALSE, l, g)

\* Lines 416-423: the attempt is counted, then get_plate(snapshot) and
\* result = 'no_plate'; without a plate number the call goes on at line 454.
Attempt(w, exchanges) ==
    /\ pc[w] = "increment"
    /\ CURRENT_EVENTS' = increment_event_attempt(CURRENT_EVENTS, msg[w].id)
    /\ \E exchange \in exchanges :
       \E order \in IterationOrders(_normalise_watched(config.watched_plates)) :
       \E r \in {get_plate(exchange, config, order)} :
       \E raw \in {recognize(exchange, config, order)} :
          LET l == [loc[w] EXCEPT !.rec = r, !.result = "no_plate"]
              g == [Logged(Logged(gh[w], "increment_event_attempt"), "get_plate")
                       EXCEPT !.raw = raw]
          IN  IF plate_recognised(r.plate_number)
              THEN Goto(w, "insert", l, g)
              ELSE SaveAndReturn(w, l, g)
    /\ UNCHANGED <<main, probe, config, first_message, plates, delivered, msg, raced>>

\* The workers that passed the has-processed check for the same event and
\* have not yet inserted.
Racing(w) ==
    {v \in Workers \ {w} :
        /\ pc[v] \in {"track", "attempts", "increment", "insert"}
        /\ msg[v].id = msg[w].id}

\* Lines 424-463: store_plate_in_db and the outcome of the insert, then
\* set_sublabel, publish_plate_message, save_image and return.
Store(w) ==
    /\ pc[w] = "insert"
    /\ \E fault \in BOOLEAN, http \in {"exc", "200"} :
          LET r == insert_plate(plates, fault, msg[w].start_time,
                                loc[w].rec.plate_score,
                                saved_plate_number(loc[w].rec),
                                msg[w].id, msg[w].camera)
              l == [loc[w] EXCEPT !.result = insert_outcome(r.ret)]
              g1 == [Logged(gh[w], "insert_plate") EXCEPT
                        !.insert_ret = r.ret, !.faulted = @ \/ fault]
              s == set_sublabel(saved_plate_number(l.rec), l.rec.plate_score,
                                http)
              g2 == [Logged(g1, "set_sublabel") EXCEPT
                        !.sublabels = Append(@, s.posted)]
              out == publish_plate_message(config, l.rec.plate_number,
                         l.rec.plate_score, msg[w].id, msg[w],
                         msg[w].start_time, l.rec.watched_plate,
                         l.rec.fuzzy_score)
              g3 == [Logged(g2, "publish_plate_message") EXCEPT
                        !.published = @ \o out]
          IN  /\ plates' = r.rows
              /\ IF s.raised
                 THEN Finish(w, "none", TRUE, l, g2)
                 ELSE SaveAndReturn(w, l, g3)
    /\ raced' = raced \cup {{w, v} : v \in Racing(w)}
    /\ UNCHANGED <<main, probe, config, first_message, CURRENT_EVENTS, delivered, msg>>

\* The worker pool: the calls of the workers interleave.
Next ==
    \E w \in Workers :
        \/ Start(w, MaxMessages) /\ UNCHANGED main
        \/ CheckFirstRead(w)
        \/ CheckFirstWrite(w, PoolMessages)
        \/ EndSighting(w)
        \/ Filter(w)
        \/ Dedup(w)
        \/ Track(w)
        \/ NoSnapshot(w)
        \/ Attempts(w)
        \/ Attempt(w, PoolExchanges(config))
        \/ Store(w)

Spec == Init /\ [][Next]_vars

\* Sequential delivery: one worker, a call starts when the last has ended.
SeqWorker == "w1"

NextSeq ==
    \/ Start(SeqWorker, MaxSeqMessages) /\ UNCHANGED main
    \/ Redeliver(SeqWorker, MaxSeqMessages)
    \/ CheckFirstRead(SeqWorker)
    \/ CheckFirstWrite(SeqWorker, Messages)
    \/ EndSighting(SeqWorker)
    \/ Filter(SeqWorker)
    \/ Dedup(SeqWorker)
    \/ Track(SeqWorker)
    \/ NoSnapshot(SeqWorker)
    \/ Attempts(SeqWorker)
    \/ Attempt(SeqWorker, Exchanges(config))
    \/ Store(SeqWorker)

SpecSeq == InitSeq /\ [][NextSeq]_vars

\* The workers inside process_message.
Running == {w \in Workers : pc[w] \notin {"idle", "done"}}

\* ------------------------------------------------------------------------
\* The worker pool under an attempt ceiling: messages of one event, each
\* answered with a plate or with a transport error.  main.busiest keeps the
\* largest number of calls that were inside process_message at once.
\* ------------------------------------------------------------------------

MaxCeilingMessages == 4

\* Plate Recognizer with a ceiling of one and of two attempts.
CeilingConfigs ==
    {[ScenarioConfig EXCEPT !.max_attempts = m] : m \in {1, 2}}

CeilingMessages ==
    { Message("evt-1", "update", "front", TRUE, 70, <<LicensePlate(90)>>),
      Message("evt-1", "end", "front", TRUE, 70, <<LicensePlate(90)>>) }

CeilingExchanges(cfg) ==
    { <<Failed(0)>>, <<Answer(<<Entry(cfg, AB12CD, 91)>>)>> }

InitCeiling ==
    /\ config \in CeilingConfigs
    /\ first_message = TRUE
    /\ CURRENT_EVENTS = EmptyDict
    /\ plates = <<>>
    /\ delivered = 0
    /\ pc = [w \in Workers |-> "idle"]
    /\ msg = [w \in Workers |-> Unparsed]
    /\ loc = [w \in Workers |-> InitLoc]
    /\ gh = [w \in Workers |-> InitGh]
    /\ raced = {}
    /\ successes = [e \in EventIds |-> 0]
    /\ probe = NoProbe
    /\ main = [at |-> "loop", _shutdown_requested |-> FALSE, queued |-> 0,
               pending_at_signal |-> 0, busiest |-> 0]

\* executor.submit(process_message, message) on a free worker thread.
Submitted(w) ==
    /\ Start(w, MaxCeilingMessages)
    /\ main' = [main EXCEPT
                   !.busiest = IF Cardinality(Running \cup {w}) > @
                               THEN Cardinality(Running \cup {w}) ELSE @]

NextCeiling ==
    \E w \in Workers :
        \/ Submitted(w)
        \/ CheckFirstRead(w)
        \/ CheckFirstWrite(w, CeilingMessages)
        \/ EndSighting(w)
        \/ Filter(w)
        \/ Dedup(w)
        \/ Track(w)
        \/ NoSnapshot(w)
        \/ Attempts(w)
        \/ Attempt(w, CeilingExchanges(config))
        \/ Store(w)

SpecCeiling == InitCeiling /\ [][NextCeiling]_vars

\* ------------------------------------------------------------------------
\* app.py: main, run_mqtt_client and _signal_handler around the worker pool.
\* main.at is where the main thread is: in the loop of run_mqtt_client, in
\* executor.shutdown(wait=True), or past it.
\* ------------------------------------------------------------------------

\* Messages submitted in one run with a shutdown.
MaxDrainMessages == 2

\* The payloads and the answers in those runs.
DrainMessages ==
    { Message("evt-1", "update", "front", TRUE, 70, <<LicensePlate(90)>>),
      Message("evt-2", "update", "front", FALSE, 70, <<LicensePlate(90)>>) }

DrainExchanges(cfg) ==
    { <<Failed(0)>>, <<Answer(<<Entry(cfg, AB12CD, 91)>>)>> }

\* Fault variant of executor_shutdown: shutdown(wait=False) returns at once.
executor_shutdown_nowait(queued, running) == TRUE

\* executor.shutdown(wait=True) returns when the queue is empty and every
\* worker thread has ended its work item.
executor_shutdown(queued, running) == queued = 0 /\ running = {}

\* on_message inside mqtt_client.loop: executor.submit(process_message,
\* message) puts a work item into the queue.
Submit ==
    /\ main.at = "loop"
    /\ delivered + main.queued < MaxDrainMessages
    /\ main' = [main EXCEPT !.queued = @ + 1]
    /\ UNCHANGED <<config, first_message, CURRENT_EVENTS, plates, delivered,
                   pc, msg, loc, gh, raced, successes, probe>>

\* A worker thread takes a work item from the queue.
Begin(w) ==
    /\ main.queued > 0
    /\ Start(w, MaxDrainMessages)
    /\ main' = [main EXCEPT !.queued = @ - 1]

\* _signal_handler: SIGINT or SIGTERM sets _shutdown_requested (and
\* disconnects the MQTT client); pending_at_signal records how many
\* messages were queued or in work at that moment.
Signal ==
    /\ main.at = "loop"
    /\ ~main._shutdown_requested
    /\ main' = [main EXCEPT !._shutdown_requested = TRUE,
                            !.pending_at_signal =
                                main.queued + Cardinality(Running)]
    /\ UNCHANGED <<config, first_message, CURRENT_EVENTS, plates, delivered,
                   pc, msg, loc, gh, raced, successes, probe>>

\* run_mqtt_client: `while not _shutdown_requested` ends, and main goes on
\* to the finally clause.
LoopExit ==
    /\ main.at = "loop"
    /\ main._shutdown_requested
    /\ main' = [main EXCEPT !.at = "shutdown"]
    /\ UNCHANGED <<config, first_message, CURRENT_EVENTS, plates, delivered,
                   pc, msg, loc, gh, raced, successes, probe>>

\* main: executor.shutdown(wait=True) returns and main() ends.
Exit ==
    /\ main.at = "shutdown"
    /\ executor_shutdown(main.queued, Running)
    /\ main' = [main EXCEPT !.at = "exited"]
    /\ UNCHANGED <<config, first_message, CURRENT_EVENTS, plates, delivered,
                   pc, msg, loc, gh, raced, successes, probe>>

\* One step of the work item of a worker thread.
Work(w) ==
    \/ CheckFirstRead(w)
    \/ CheckFirstWrite(w, DrainMessages)
    \/ EndSighting(w)
    \/ Filter(w)
    \/ Dedup(w)
    \/ Track(w)
    \/ NoSnapshot(w)
    \/ Attempts(w)
    \/ Attempt(w, DrainExchanges(config))
    \/ Store(w)

NextShutdown ==
    \/ Submit
    \/ Signal
    \/ LoopExit
    \/ Exit
    \/ \E w \in Workers : Begin(w) \/ Work(w)

\* The threads are scheduled: a worker thread that can take a work item or
\* go on with one does so, and the main thread goes on when it can.
SpecShutdown ==
    /\ Init
    /\ [][NextShutdown]_vars
    /\ \A w \in Workers : WF_vars(Begin(w) \/ Work(w))
    /\ WF_vars(LoopExit)
    /\ WF_vars(Exit)

\* ------------------------------------------------------------------------
\* config.py: load_app_config.  The configuration file is drawn in the
\* initial state; one step validates it, and for an accepted configuration
\* a second step is a get_plate call under it.
\* ------------------------------------------------------------------------

\* What the file and the environment may say: each backend block present
\* or absent, values of three bounded fields inside and outside their
\* bounds, and the objects list: <<>> when the operator configures none
\* (the field's default, and what _ensure_list makes of None and "").
RawConfigs ==
    [plate_recognizer : BOOLEAN, code_project : BOOLEAN,
     min_score : {None, 0, 80, 150}, fuzzy_match : {0, 80, 120},
     max_attempts : {-1, 0, 2},
     objects : {<<>>, <<"car", "bus">>}]

\* The labels of the events filtered under a loaded configuration.
Labels == {"car", "motorcycle", "bus", "person"}

\* FrigateConfig: min_score and fuzzy_match within 0..1, max_attempts >= 0.
validate_frigate(raw) ==
    /\ raw.min_score = None \/ (0 <= raw.min_score /\ raw.min_score <= 100)
    /\ 0 <= raw.fuzzy_match /\ raw.fuzzy_match <= 100
    /\ raw.max_attempts >= 0

\* AppConfig.validate_recognizer
validate_recognizer(raw) == raw.plate_recognizer \/ raw.code_project

\* load_app_config: the validated configuration, or the ValueError raised
\* for a ValidationError.
load_app_config(raw) ==
    IF validate_frigate(raw) /\ validate_recognizer(raw)
    THEN "accepted"
    ELSE "ValueError"

\* AppConfig.runtime_dict: a backend block is there when it was configured;
\* frigate is the model_dump() of FrigateConfig, which has every field, so
\* the key objects is always there.
runtime_dict(raw) ==
    [ScenarioConfig EXCEPT !.plate_recognizer = raw.plate_recognizer,
                           !.code_project = raw.code_project,
                           !.has_objects = TRUE,
                           !.objects = raw.objects,
                           !.min_score = raw.min_score,
                           !.fuzzy_match = raw.fuzzy_match,
                           !.max_attempts = raw.max_attempts]

InitLoad ==
    /\ config = ScenarioConfig
    /\ first_message = TRUE
    /\ CURRENT_EVENTS = EmptyDict
    /\ plates = <<>>
    /\ delivered = 0
    /\ pc = [w \in Workers |-> "idle"]
    /\ msg = [w \in Workers |-> Unparsed]
    /\ loc = [w \in Workers |-> InitLoc]
    /\ gh = [w \in Workers |-> InitGh]
    /\ raced = {}
    /\ successes = [e \in EventIds |-> 0]
    /\ main = MainLoop
    /\ probe \in {[done |-> FALSE, stage |-> "file", raw |-> raw,
                    loaded |-> "none", called |-> {}, out |-> EmptyResult,
                    label |-> "none", invalid |-> FALSE] :
                      raw \in RawConfigs}

\* main: load_config() before anything else runs.
LoadConfig ==
    /\ probe.stage = "file"
    /\ LET loaded == load_app_config(probe.raw)
       IN  /\ probe' = [probe EXCEPT !.stage = "loaded", !.loaded = loaded]
           /\ config' = IF loaded = "accepted"
                        THEN runtime_dict(probe.raw) ELSE config
    /\ UNCHANGED <<first_message, CURRENT_EVENTS, plates, delivered,
                   pc, msg, loc, gh, raced, successes, main>>

\* A get_plate call of the running process.
GetPlate ==
    /\ probe.stage = "loaded"
    /\ probe.loaded = "accepted"
    /\ \E exchange \in Exchanges(config) :
       \E out \in {get_plate(exchange, config, <<>>)} :
          probe' = [probe EXCEPT !.stage = "called", !.done = TRUE,
                                 !.called = backends_called(config),
                                 !.out = out]
    /\ UNCHANGED <<config, first_message, CURRENT_EVENTS, plates, delivered,
                   pc, msg, loc, gh, raced, successes, main>>

\* A check_invalid_event call of the running process, for an untracked
\* event on camera front with the given label.
CheckInvalidEvent ==
    /\ probe.stage = "loaded"
    /\ probe.loaded = "accepted"
    /\ \E label \in Labels :
          probe' = [probe EXCEPT
                       !.stage = "filtered",
                       !.label = label,
                       !.invalid = check_invalid_event(config,
                                       [top_score |-> 70], Labelled(label),
                                       is_event_tracked(CURRENT_EVENTS, "evt-1"))]
    /\ UNCHANGED <<config, first_message, CURRENT_EVENTS, plates, delivered,
                   pc, msg, loc, gh, raced, successes, main>>

NextLoad == LoadConfig \/ GetPlate \/ CheckInvalidEvent

SpecLoad == InitLoad /\ [][NextLoad]_vars

\* ------------------------------------------------------------------------
\* recognition.py and http_client.py: one recognize_with_plate_recognizer
\* call, one step per request sent and per iteration of the for loop.  The
\* session the call posts with is built by initialize_http_clients with
\* retries = plate_recognizer.max_retries, so its adapter resends a request
\* by itself before session.post returns.
\* ------------------------------------------------------------------------

\* The largest max_retries of a call.
MaxRetries == 7

\* http_client.STATUS_FORCELIST
STATUS_FORCELIST == {429, 500, 502, 503, 504}

\* What the server may answer to one request (status 0: the connection
\* fails).
WireResponses ==
    { Failed(0), Failed(429), Failed(500), Failed(404), InvalidJson,
      Answer(<<>>), Answer(<<EntryA(AB12CD, 91, <<>>)>>) }

\* Plate Recognizer with the given max_retries.
RetryConfig(retries) == [ScenarioConfig EXCEPT !.max_retries = retries]

\* Line 162: attempts = max(1, recognizer_config.max_retries + 1)
attempts_for(retries) == IF retries + 1 > 1 THEN retries + 1 ELSE 1

\* Fault variant of adapter_retries: the adapter does not look at what is
\* left of its retries.
adapter_retries_unbudgeted(r, retryable, total) ==
    \/ r.status = 0 /\ retryable
    \/ r.status \in STATUS_FORCELIST

\* build_retry_strategy, Retry(total=retries, status_forcelist=...,
\* allowed_methods=("GET", "POST"), raise_on_status=False): the adapter
\* sends the request again, while retries are left, after a connection or
\* read error that urllib3 retries and after a status of the forcelist;
\* otherwise session.post raises or returns the response.
adapter_retries(r, retryable, total) ==
    /\ total > 0
    /\ \/ r.status = 0 /\ retryable
       \/ r.status \in STATUS_FORCELIST

\* The locals of recognize_with_plate_recognizer at its first post (lines
\* 162-165) and the history of the call: sends counts the requests on the
\* wire, posts the session.post calls that came back, total is what is
\* left of the adapter's Retry(total=max_retries) for the post under way.
RecognizeCall(retries) ==
    [done |-> FALSE, stage |-> "post", attempt |-> 1,
     attempts |-> attempts_for(retries), delay_seconds |-> 1,
     sleeps |-> <<>>, posts |-> 0, sends |-> 0, total |-> retries,
     response |-> Failed(0), err |-> 0, result |-> EmptyResult]

\* The call begins: attempt 1, delay_seconds 1, nothing sent.
InitRecognize ==
    /\ config \in {RetryConfig(r) : r \in 0..MaxRetries}
    /\ first_message = TRUE
    /\ CURRENT_EVENTS = EmptyDict
    /\ plates = <<>>
    /\ delivered = 0
    /\ pc = [w \in Workers |-> "idle"]
    /\ msg = [w \in Workers |-> Unparsed]
    /\ loc = [w \in Workers |-> InitLoc]
    /\ gh = [w \in Workers |-> InitGh]
    /\ raced = {}
    /\ successes = [e \in EventIds |-> 0]
    /\ main = MainLoop
    /\ probe = RecognizeCall(config.max_retries)

\* Line 168, session.post: the adapter sends the request (sends counts the
\* submissions of the image); it sends again or session.post is over.
AdapterSend ==
    /\ probe.stage = "post"
    /\ \E r \in WireResponses, retryable \in BOOLEAN :
          probe' = IF adapter_retries(r, retryable, probe.total)
                   THEN [probe EXCEPT !.sends = @ + 1, !.total = @ - 1]
                   ELSE [probe EXCEPT !.sends = @ + 1, !.posts = @ + 1,
                                      !.response = r, !.stage = "handle"]
    /\ UNCHANGED <<config, first_message, CURRENT_EVENTS, plates, delivered,
                   pc, msg, loc, gh, raced, successes, main>>

\* Lines 169-243: the rest of the iteration; the function returns, or the
\* loop goes on with the next post (a fresh request, so the adapter's
\* retries are all left), or the loop has run out and lines 242-243 return.
LoopStep ==
    /\ probe.stage = "handle"
    /\ LET it == loop_iteration(probe.response, probe.attempt, probe.attempts,
                                probe.delay_seconds)
           p == parse_plate_recognizer(probe.response.body, config, <<>>)
           over == probe.attempt + 1 > probe.attempts
       IN  probe' = IF it.next = "parse"
                    THEN [probe EXCEPT !.done = TRUE, !.stage = "returned",
                                       !.result = p.result,
                                       !.err = @ + p.err]
                    ELSE IF it.next = "return"
                    THEN [probe EXCEPT !.done = TRUE, !.stage = "returned",
                                       !.result = EmptyResult,
                                       !.err = @ + it.err]
                    ELSE [probe EXCEPT !.sleeps = @ \o it.slept,
                                       !.delay_seconds = it.delay_seconds,
                                       !.attempt = @ + 1,
                                       !.total = config.max_retries,
                                       !.done = over,
                                       !.stage = IF over THEN "returned"
                                                 ELSE "post"]
    /\ UNCHANGED <<config, first_message, CURRENT_EVENTS, plates, delivered,
                   pc, msg, loc, gh, raced, successes, main>>

NextRecognize == AdapterSend \/ LoopStep

SpecRecognize == InitRecognize /\ [][NextRecognize]_vars

\* ------------------------------------------------------------------------
\* One worker thread and its traversals of process_message, the Plate
\* Recognizer call taken step by step (AdapterSend, LoopStep) instead of
\* in one piece, under a scheduler that lets the thread run.
\* ------------------------------------------------------------------------

MaxTraverseRetries == 1

\* Requests on the wire that one recognize call is followed for.
MaxTraverseSends == 10

InitTraverse ==
    /\ config \in {RetryConfig(r) : r \in 0..MaxTraverseRetries}
    /\ first_message = TRUE
    /\ CURRENT_EVENTS = EmptyDict
    /\ plates = <<>>
    /\ delivered = 0
    /\ pc = [w \in Workers |-> "idle"]
    /\ msg = [w \in Workers |-> Unparsed]
    /\ loc = [w \in Workers |-> InitLoc]
    /\ gh = [w \in Workers |-> InitGh]
    /\ raced = {}
    /\ successes = [e \in EventIds |-> 0]
    /\ main = MainLoop
    /\ probe = [RecognizeCall(config.max_retries) EXCEPT !.stage = "idle"]

\* Line 416 and the entry of get_plate at line 417: the attempt is counted
\* and recognize_with_plate_recognizer begins.
BeginRecognize(w) ==
    /\ pc[w] = "increment"
    /\ CURRENT_EVENTS' = increment_event_attempt(CURRENT_EVENTS, msg[w].id)
    /\ probe' = RecognizeCall(config.max_retries)
    /\ Goto(w, "recognize", loc[w],
            Logged(Logged(gh[w], "increment_event_attempt"), "get_plate"))
    /\ UNCHANGED <<main, config, first_message, plates, delivered, msg, raced>>

\* Lines 417-423 once the recogniser has returned: the score floor of
\* get_plate, result = 'no_plate', and on to the insert or to line 454.
EndRecognize(w) ==
    /\ pc[w] = "recognize"
    /\ probe.stage = "returned"
    /\ probe' = [probe EXCEPT !.stage = "idle"]
    /\ LET r == apply_score_floor(probe.result, config)
           l == [loc[w] EXCEPT !.rec = r, !.result = "no_plate"]
           g == [gh[w] EXCEPT !.raw = probe.result]
       IN  IF plate_recognised(r.plate_number)
           THEN Goto(w, "insert", l, g)
           ELSE SaveAndReturn(w, l, g)
    /\ UNCHANGED <<main, config, first_message, CURRENT_EVENTS, plates,
                   delivered, msg, raced>>

\* One step of the thread inside process_message.
Traverse(w) ==
    \/ CheckFirstRead(w)
    \/ CheckFirstWrite(w, DrainMessages)
    \/ EndSighting(w)
    \/ Filter(w)
    \/ Dedup(w)
    \/ Track(w)
    \/ NoSnapshot(w)
    \/ Attempts(w)
    \/ BeginRecognize(w)
    \/ probe.sends < MaxTraverseSends /\ AdapterSend
    \/ LoopStep
    \/ EndRecognize(w)
    \/ Store(w)

NextTraverse ==
    \/ Start(SeqWorker, MaxDrainMessages) /\ UNCHANGED main
    \/ Traverse(SeqWorker)

\* The thread is scheduled while it has a step to take; every external
\* call is one step that returns or fails.
SpecTraverse ==
    /\ InitTraverse
    /\ [][NextTraverse]_vars
    /\ WF_vars(Traverse(SeqWorker))

\* ------------------------------------------------------------------------
\* events.py under concurrent callers: threads call the tracker's functions
\* at will; each call takes _CURRENT_EVENTS_LOCK, runs the statements of
\* its with block one at a time and releases the lock.
\* ------------------------------------------------------------------------

Callers == {1, 2, 3}

MaxTrackerCalls == 4

TrackerOps ==
    {"track_event_start", "is_event_tracked", "increment_event_attempt",
     "get_event_attempts", "clear_event"}

\* Fault variant of lock_acquire: the with statement does not wait.
lock_acquire_unguarded(lock) == TRUE

\* threading.Lock: acquire goes through when nobody holds the lock.
lock_acquire(lock) == lock = 0

IdleCaller == [pc |-> "idle", op |-> "none", id |-> "none", tmp |-> 0]

NoCall ==
    [op |-> "none", id |-> "none", tracked |-> FALSE, before |-> 0,
     after |-> 0, ret |-> None]

\* Count(events, event_id) without the forward reference.
Stored(events, event_id) ==
    IF event_id \in DOMAIN events THEN events[event_id] ELSE 0

InitTracker ==
    /\ config = ScenarioConfig
    /\ first_message = TRUE
    /\ CURRENT_EVENTS = EmptyDict
    /\ plates = <<>>
    /\ delivered = 0
    /\ pc = [w \in Workers |-> "idle"]
    /\ msg = [w \in Workers |-> Unparsed]
    /\ loc = [w \in Workers |-> InitLoc]
    /\ gh = [w \in Workers |-> InitGh]
    /\ raced = {}
    /\ successes = [e \in EventIds |-> 0]
    /\ main = MainLoop
    /\ probe = [lock |-> 0, th |-> [t \in Callers |-> IdleCaller],
                calls |-> 0, overlaps |-> 0,
                rets |-> [e \in EventIds |-> <<>>], last |-> NoCall]

TrackerRest ==
    UNCHANGED <<config, first_message, plates, delivered, pc, msg, loc, gh,
                raced, successes, main>>

\* A thread calls one of the five functions; overlaps counts the calls
\* made while another call holds the lock.
Call(t) ==
    /\ probe.th[t].pc = "idle"
    /\ probe.calls < MaxTrackerCalls
    /\ \E op \in TrackerOps, id \in EventIds :
          probe' = [probe EXCEPT
                       !.th[t] = [pc |-> "acquire", op |-> op, id |-> id,
                                  tmp |-> 0],
                       !.calls = @ + 1,
                       !.overlaps = IF probe.lock # 0 THEN @ + 1 ELSE @]
    /\ UNCHANGED CURRENT_EVENTS
    /\ TrackerRest

\* with _CURRENT_EVENTS_LOCK:
Acquire(t) ==
    /\ probe.th[t].pc = "acquire"
    /\ lock_acquire(probe.lock)
    /\ probe' = [probe EXCEPT !.lock = t, !.th[t].pc = "body"]
    /\ UNCHANGED CURRENT_EVENTS
    /\ TrackerRest

\* The body of a call is over: what it saw and what it returned.
Returned(t, after, ret) ==
    [op |-> probe.th[t].op, id |-> probe.th[t].id,
     tracked |-> is_event_tracked(CURRENT_EVENTS, probe.th[t].id),
     before |-> Stored(CURRENT_EVENTS, probe.th[t].id),
     after |-> Stored(after, probe.th[t].id), ret |-> ret]

\* Lines 16-17: CURRENT_EVENTS.setdefault(event_id, 0)
StartBody(t) ==
    /\ probe.th[t].pc = "body"
    /\ probe.th[t].op = "track_event_start"
    /\ CURRENT_EVENTS' = track_event_start(CURRENT_EVENTS, probe.th[t].id)
    /\ probe' = [probe EXCEPT !.th[t].pc = "release",
                              !.last = Returned(t, CURRENT_EVENTS', None)]
    /\ TrackerRest

\* Line 22: return event_id in CURRENT_EVENTS
TrackedBody(t) ==
    /\ probe.th[t].pc = "body"
    /\ probe.th[t].op = "is_event_tracked"
    /\ probe' = [probe EXCEPT
                    !.th[t].pc = "release",
                    !.last = Returned(t, CURRENT_EVENTS,
                                 IF is_event_tracked(CURRENT_EVENTS,
                                                     probe.th[t].id)
                                 THEN 1 ELSE 0)]
    /\ UNCHANGED CURRENT_EVENTS
    /\ TrackerRest

\* Line 34: return CURRENT_EVENTS.get(event_id, 0)
GetBody(t) ==
    /\ probe.th[t].pc = "body"
    /\ probe.th[t].op = "get_event_attempts"
    /\ probe' = [probe EXCEPT
                    !.th[t].pc = "release",
                    !.last = Returned(t, CURRENT_EVENTS,
                                 get_event_attempts(CURRENT_EVENTS,
                                                    probe.th[t].id))]
    /\ UNCHANGED CURRENT_EVENTS
    /\ TrackerRest

\* Line 27, right-hand side: CURRENT_EVENTS.get(event_id, 0) + 1
IncrementRead(t) ==
    /\ probe.th[t].pc = "body"
    /\ probe.th[t].op = "increment_event_attempt"
    /\ probe' = [probe EXCEPT
                    !.th[t].pc = "write",
                    !.th[t].tmp = get_event_attempts(CURRENT_EVENTS,
                                                     probe.th[t].id) + 1]
    /\ UNCHANGED CURRENT_EVENTS
    /\ TrackerRest

\* Line 27, the assignment: CURRENT_EVENTS[event_id] = ...
IncrementWrite(t) ==
    /\ probe.th[t].pc = "write"
    /\ CURRENT_EVENTS' =
          [e \in DOMAIN CURRENT_EVENTS \cup {probe.th[t].id} |->
              IF e = probe.th[t].id THEN probe.th[t].tmp
              ELSE CURRENT_EVENTS[e]]
    /\ probe' = [probe EXCEPT !.th[t].pc = "return"]
    /\ TrackerRest

\* Line 29: return CURRENT_EVENTS[event_id]; a KeyError when the key has
\* gone returns nothing.
IncrementReturn(t) ==
    /\ probe.th[t].pc = "return"
    /\ LET ret == IF is_event_tracked(CURRENT_EVENTS, probe.th[t].id)
                  THEN CURRENT_EVENTS[probe.th[t].id] ELSE None
       IN  probe' = [probe EXCEPT
                        !.th[t].pc = "release",
                        !.rets[probe.th[t].id] = Append(@, ret),
                        !.last = [Returned(t, CURRENT_EVENTS, ret) EXCEPT
                                     !.before = probe.th[t].tmp - 1]]
    /\ UNCHANGED CURRENT_EVENTS
    /\ TrackerRest

\* Line 39: if event_id in CURRENT_EVENTS
ClearTest(t) ==
    /\ probe.th[t].pc = "body"
    /\ probe.th[t].op = "clear_event"
    /\ probe' = IF is_event_tracked(CURRENT_EVENTS, probe.th[t].id)
                THEN [probe EXCEPT !.th[t].pc = "del"]
                ELSE [probe EXCEPT
                         !.th[t].pc = "release",
                         !.last = Returned(t, CURRENT_EVENTS, None)]
    /\ UNCHANGED CURRENT_EVENTS
    /\ TrackerRest

\* Lines 40-41: del CURRENT_EVENTS[event_id]
ClearDel(t) ==
    /\ probe.th[t].pc = "del"
    /\ CURRENT_EVENTS' = clear_event(CURRENT_EVENTS, probe.th[t].id)
    /\ probe' = [probe EXCEPT !.th[t].pc = "release",
                              !.rets[probe.th[t].id] = <<>>,
                              !.last = Returned(t, CURRENT_EVENTS', None)]
    /\ TrackerRest

\* The with block is left: the lock is released.
Release(t) ==
    /\ probe.th[t].pc = "release"
    /\ probe' = [probe EXCEPT !.lock = 0, !.th[t] = IdleCaller]
    /\ UNCHANGED CURRENT_EVENTS
    /\ TrackerRest

NextTracker ==
    \E t \in Callers :
        \/ Call(t)
        \/ Acquire(t)
        \/ StartBody(t)
        \/ TrackedBody(t)
        \/ GetBody(t)
        \/ IncrementRead(t)
        \/ IncrementWrite(t)
        \/ IncrementReturn(t)
        \/ ClearTest(t)
        \/ ClearDel(t)
        \/ Release(t)

SpecTracker == InitTracker /\ [][NextTracker]_vars

\* ------------------------------------------------------------------------
\* check_watched_plates on its own: the arguments are drawn in the initial
\* state and one step applies the function to them.
\* ------------------------------------------------------------------------

\* The runtime configurations check_watched_plates is called with.
MatchConfig(backend_a, watched_plates, fuzzy_match) ==
    [ScenarioConfig EXCEPT !.plate_recognizer = backend_a,
                           !.code_project = ~backend_a,
                           !.watched_plates = watched_plates,
                           !.fuzzy_match = fuzzy_match]

\* Top plates, watch-lists, thresholds and candidate lists of the calls.
MatchPlates == {NoPlate, ABC123, abc123, AB12CD, ABC12D, DEF456}

MatchWatchLists == {<<>>, <<abc123>>, <<ABC123, def456>>, <<XYZ999>>}

MatchThresholds == {0, 80, 100}

MatchCandidates(backend_a) ==
    { <<>>,
      <<Entry(MatchConfig(backend_a, <<>>, 0), ABC123, 70)>>,
      <<Entry(MatchConfig(backend_a, <<>>, 0), AB12CD, 90),
        Entry(MatchConfig(backend_a, <<>>, 0), DEF456, 60)>>,
      <<Entry(MatchConfig(backend_a, <<>>, 0), XYZ999, 50),
        Entry(MatchConfig(backend_a, <<>>, 0), abc123, 40)>>,
      <<Entry(MatchConfig(backend_a, <<>>, 0), DEF456, 60),
        Entry(MatchConfig(backend_a, <<>>, 0), ABC123, 70)>> }

MatchCalls ==
    { [done |-> FALSE, plate_number |-> p, candidates |-> c,
       runtime_config |-> MatchConfig(b, wl, t), order |-> o,
       out |-> EmptyMatch] :
        p \in MatchPlates, b \in BOOLEAN, wl \in MatchWatchLists,
        t \in MatchThresholds,
        c \in MatchCandidates(TRUE) \cup MatchCandidates(FALSE),
        o \in UNION {IterationOrders(_normalise_watched(w)) :
                        w \in MatchWatchLists} }

InitMatch ==
    /\ config = ScenarioConfig
    /\ first_message = TRUE
    /\ CURRENT_EVENTS = EmptyDict
    /\ plates = <<>>
    /\ delivered = 0
    /\ pc = [w \in Workers |-> "idle"]
    /\ msg = [w \in Workers |-> Unparsed]
    /\ loc = [w \in Workers |-> InitLoc]
    /\ gh = [w \in Workers |-> InitGh]
    /\ raced = {}
    /\ successes = [e \in EventIds |-> 0]
    /\ main = MainLoop
    /\ probe \in {c \in MatchCalls :
                    /\ c.order \in IterationOrders(
                           _normalise_watched(c.runtime_config.watched_plates))
                    /\ c.candidates \in
                           MatchCandidates(c.runtime_config.plate_recognizer)}

\* The call returns.
CheckWatched ==
    /\ ~probe.done
    /\ probe' = [probe EXCEPT
                    !.done = TRUE,
                    !.out = check_watched_plates(probe.plate_number,
                                probe.candidates, probe.runtime_config,
                                probe.order)]
    /\ UNCHANGED <<config, first_message, CURRENT_EVENTS, plates, delivered,
                   pc, msg, loc, gh, raced, successes, main>>

NextMatch == CheckWatched

SpecMatch == InitMatch /\ [][NextMatch]_vars

TypeOK ==
    /\ config \in Configs \cup PoolConfigs
    /\ first_message \in BOOLEAN
    /\ DOMAIN CURRENT_EVENTS \subseteq EventIds
    /\ delivered \in 0..(MaxMessages + MaxSeqMessages)
    /\ \A w \in Workers : loc[w].result \in Outcomes \cup {"none"}

\* ------------------------------------------------------------------------
\* Properties
\* ------------------------------------------------------------------------

\* The call of worker w has ended.
Done(w) == pc[w] = "done"

\* The call of worker w has made the given call of a collaborator.
Reached(w, call) == InSeq(call, gh[w].trace)

\* The call of worker w met no failure of the store or of the disk.
Unfaulted(w) == ~gh[w].faulted

\* C1: for every event identifier, in every interleaving of concurrent or
\* repeated calls, the plates table holds at most one row for it and at most
\* one call for it has returned 'success'.
C1_AtMostOnce ==
    \A e \in EventIds :
        /\ Cardinality(Rows(plates, e)) <= 1
        /\ successes[e] <= 1

\* Two calls raced to insert the same event: one stored the row and returned
\* 'success', the other was turned away by the UNIQUE constraint.
C1_Witness ==
    \E w, v \in Workers :
        /\ {w, v} \in raced /\ w # v
        /\ Done(w) /\ Done(v)
        /\ gh[w].reported = <<"success">>
        /\ gh[v].reported = <<"duplicate_event">>
        /\ gh[v].insert_ret = "False"
        /\ Cardinality(Rows(plates, msg[w].id)) = 1

\* C2 as stated: when two calls for one event both passed the
\* has-processed check before either inserted and both went on to insert
\* (no storage fault injected), exactly one insert succeeds, the other call
\* returns 'duplicate_event', and the table holds one row for the event.
C2_RaceLoserIsDuplicate ==
    \A w, v \in Workers :
        ( /\ {w, v} \in raced /\ w # v
          /\ Done(w) /\ Done(v)
          /\ gh[w].insert_ret # "none" /\ gh[v].insert_ret # "none"
          /\ Unfaulted(w) /\ Unfaulted(v) )
        => /\ Cardinality(Rows(plates, msg[w].id)) = 1
           /\ \/ /\ gh[w].insert_ret = "True"
                 /\ gh[v].reported = <<"duplicate_event">>
              \/ /\ gh[v].insert_ret = "True"
                 /\ gh[w].reported = <<"duplicate_event">>

C4_OneOutcome ==
    \A w \in Workers :
        IF Done(w)
        THEN /\ Len(gh[w].reported) = 1
             /\ gh[w].reported[1] \in Outcomes
             /\ ~gh[w].escaped
             /\ gh[w].raised => gh[w].reported = <<"error">>
        ELSE gh[w].reported = <<>>

\* A traversal raised (after its insert) and the call reported 'error'.
C4_Witness ==
    \E w \in Workers :
        /\ Done(w) /\ gh[w].raised
        /\ Reached(w, "insert_plate")
        /\ gh[w].reported = <<"error">>

\* C5 as stated: with max_attempts = M > 0, a call that starts when the
\* attempt count of its event is M or more returns 'max_attempts', leaves
\* the count as it was and does not call get_plate.
C5_AlwaysMaxAttempts ==
    \A w \in Workers :
        ( /\ Done(w) /\ ~gh[w].first /\ Unfaulted(w)
          /\ config.max_attempts > 0
          /\ gh[w].attempts_before >= config.max_attempts )
        => /\ gh[w].reported = <<"max_attempts">>
           /\ Count(CURRENT_EVENTS, msg[w].id) = gh[w].attempts_before
           /\ ~Reached(w, "get_plate")

\* C5 amended: with max_attempts = M > 0, a call that arrives at the
\* ceiling check when the attempt count of its event is M or more returns
\* 'max_attempts', does not increment the count (which stays what the check
\* read) and does not call get_plate.
C5_CeilingRejects ==
    \A w \in Workers :
        ( /\ Done(w)
          /\ config.max_attempts > 0
          /\ gh[w].attempts_at_check # None
          /\ gh[w].attempts_at_check >= config.max_attempts )
        => /\ gh[w].reported = <<"max_attempts">>
           /\ ~Reached(w, "increment_event_attempt")
           /\ ~Reached(w, "get_plate")
           /\ Count(CURRENT_EVENTS, msg[w].id) = gh[w].attempts_at_check

\* A call found the count at the ceiling and returned 'max_attempts'.
C5_Witness ==
    \E w \in Workers :
        /\ Done(w)
        /\ config.max_attempts > 0
        /\ gh[w].attempts_at_check = config.max_attempts
        /\ gh[w].reported = <<"max_attempts">>

\* C6: in every step the attempt count of every tracked event is
\* non-negative and not smaller than before, and a record disappears only
\* in the clear of a terminal message or of a call without snapshot, for
\* that event.
C6_Monotone ==
    [][\A e \in EventIds :
          /\ e \in DOMAIN CURRENT_EVENTS' => CURRENT_EVENTS'[e] >= 0
          /\ (e \in DOMAIN CURRENT_EVENTS /\ e \in DOMAIN CURRENT_EVENTS')
                => CURRENT_EVENTS'[e] >= CURRENT_EVENTS[e]
          /\ (e \in DOMAIN CURRENT_EVENTS /\ e \notin DOMAIN CURRENT_EVENTS')
                => \E w \in Workers :
                      /\ pc[w] \in {"end_check", "no_snapshot"}
                      /\ msg[w].id = e
                      /\ pc[w] = "end_check" => msg[w].type = "end"
      ]_vars

\* An event whose count had been raised was cleared by a later call.
C6_Witness ==
    \E w \in Workers :
        /\ Done(w)
        /\ gh[w].attempts_before >= 1
        /\ Reached(w, "clear_event")
        /\ msg[w].id \notin DOMAIN CURRENT_EVENTS

\* C7: under sequential delivery the first call returns 'first_message'
\* having parsed nothing and having touched neither the tracker nor the
\* store nor a backend, and no later call returns 'first_message'.
C7_FirstMessage ==
    Done(SeqWorker) =>
        IF gh[SeqWorker].first
        THEN /\ gh[SeqWorker].reported = <<"first_message">>
             /\ gh[SeqWorker].trace = <<>>
             /\ CURRENT_EVENTS = EmptyDict
             /\ plates = <<>>
        ELSE gh[SeqWorker].reported # <<"first_message">>

\* A later message was parsed and went through after the first was dropped.
C7_Witness ==
    /\ Done(SeqWorker)
    /\ delivered >= 2
    /\ ~gh[SeqWorker].first
    /\ first_message = FALSE
    /\ Reached(SeqWorker, "parse")
    /\ gh[SeqWorker].reported = <<"success">>

\* The message of the end-to-end scenario.
ScenarioMessage(m) ==
    /\ m.valid
    /\ m.id = "evt-1" /\ m.camera = "front" /\ m.label = "car"
    /\ m.has_snapshot

\* The answer of Backend A in the scenario, as get_plate's collaborator
\* returns it.
ScenarioAnswer ==
    [plate_number |-> AB12CD, plate_score |-> 91,
     watched_plate |-> NoPlate, fuzzy_score |-> NoRatio]

\* success, one row AB12CD for evt-1, one message with is_watched_plate false
ScenarioOutcome(w) ==
    /\ gh[w].reported = <<"success">>
    /\ Cardinality(Rows(plates, "evt-1")) = 1
    /\ \A i \in Rows(plates, "evt-1") : plates[i].plate_number = AB12CD
    /\ Len(gh[w].published) = 1
    /\ gh[w].published[1].is_watched_plate = FALSE
    /\ gh[w].published[1].plate_number = AB12CD

C9_ScoreFloor ==
    \A w \in Workers :
        ( /\ Done(w) /\ Reached(w, "get_plate") /\ Unfaulted(w)
          /\ config.min_score # None
          /\ TruthyPlate(gh[w].raw.plate_number)
          /\ gh[w].raw.plate_score # None
          /\ gh[w].raw.plate_score < config.min_score
          /\ ~TruthyRatio(gh[w].raw.fuzzy_score) )
        => /\ loc[w].rec = EmptyResult
           /\ gh[w].reported = <<"no_plate">>

\* C10: check_watched_plates returns the empty match whenever the top
\* plate, compared without regard to case, is an entry of the watch-list,
\* whatever the candidates and the fuzzy threshold.
C10_TierOne ==
    ( /\ probe.done
      /\ TruthyPlate(probe.plate_number)
      /\ \E i \in 1..Len(probe.runtime_config.watched_plates) :
            lower(probe.runtime_config.watched_plates[i])
               = lower(probe.plate_number) )
    => probe.out = EmptyMatch

\* The top plate is watched, a candidate is watched too and the fuzzy
\* threshold is met by the top plate itself; the result is still empty.
C10_Witness ==
    /\ probe.done
    /\ probe.plate_number = ABC123
    /\ probe.runtime_config.watched_plates = <<abc123>>
    /\ probe.runtime_config.fuzzy_match = 80
    /\ probe.runtime_config.plate_recognizer
    /\ Len(probe.candidates) = 1
    /\ probe.candidates[1].plate = ABC123
    /\ probe.out = EmptyMatch

\* The top plate of the call under examination is an entry of the
\* watch-list, compared without regard to case.
TopPlateWatched ==
    \E i \in 1..Len(probe.runtime_config.watched_plates) :
        lower(probe.runtime_config.watched_plates[i]) = lower(probe.plate_number)

\* The positions of the candidates that tier 2 may return: the plate text
\* is a watch-list entry, and for CodeProject.AI the position is not the
\* first.
WatchedCandidates ==
    {i \in 1..Len(probe.candidates) :
        /\ TruthyPlate(candidate_plate(probe.candidates[i]))
        /\ \E k \in 1..Len(probe.runtime_config.watched_plates) :
              lower(probe.runtime_config.watched_plates[k])
                 = lower(candidate_plate(probe.candidates[i]))
        /\ (probe.runtime_config.plate_recognizer \/ i > 1)}

\* C11: when the top plate is not itself watched, check_watched_plates
\* returns the first candidate, in order, whose plate is a watch-list entry,
\* with that candidate's own score (Plate Recognizer) or confidence
\* (CodeProject.AI) and no fuzzy ratio; for CodeProject.AI the candidate at
\* index 0 is never returned; without such a candidate no candidate is
\* returned.
C11_CandidateScan ==
    ( /\ probe.done
      /\ TruthyPlate(probe.plate_number)
      /\ ~TopPlateWatched )
    => IF WatchedCandidates # {}
       THEN LET i == CHOOSE i \in WatchedCandidates :
                        \A k \in WatchedCandidates : i <= k
                c == probe.candidates[i]
            IN  probe.out =
                  [plate |-> candidate_plate(c),
                   score |-> IF probe.runtime_config.plate_recognizer
                             THEN c.score ELSE c.confidence,
                   fuzzy |-> NoRatio]
       ELSE /\ probe.out.score = None
            /\ (probe.out = EmptyMatch \/ TruthyRatio(probe.out.fuzzy))

\* CodeProject.AI: both predictions are watched; the one at index 0 is
\* passed over and the second is returned with its confidence.
C11_Witness ==
    /\ probe.done
    /\ ~probe.runtime_config.plate_recognizer
    /\ probe.plate_number = AB12CD
    /\ probe.runtime_config.watched_plates = <<ABC123, def456>>
    /\ Len(probe.candidates) = 2
    /\ probe.candidates[1].plate = DEF456
    /\ probe.candidates[2].plate = ABC123
    /\ probe.out = [plate |-> ABC123, score |-> 70, fuzzy |-> NoRatio]

\* The similarity ratio of the top plate to the k-th watch-list entry, both
\* lower-cased.
FuzzyRatio(k) ==
    ratio(lower(probe.plate_number),
          lower(probe.runtime_config.watched_plates[k]))

\* The watch-list entries no other entry is more similar than.
MostSimilar ==
    {k \in 1..Len(probe.runtime_config.watched_plates) :
        \A j \in 1..Len(probe.runtime_config.watched_plates) :
            ~RatioGT(FuzzyRatio(j), FuzzyRatio(k))}

\* C12: check_watched_plates returns a fuzzy match only when the top plate
\* is not watched, no candidate is returned by tier 2 and fuzzy_match is
\* above 0; it then returns (entry, None, ratio) for a watch-list entry
\* (lower-cased) of maximum similarity ratio to the top plate exactly when
\* that maximum is at least fuzzy_match, and the empty match otherwise.
C12_FuzzyFallback ==
    ( /\ probe.done
      /\ TruthyPlate(probe.plate_number) )
    => IF /\ ~TopPlateWatched
          /\ WatchedCandidates = {}
          /\ probe.runtime_config.fuzzy_match > 0
          /\ \E k \in MostSimilar :
                RatioGE(FuzzyRatio(k), probe.runtime_config.fuzzy_match)
       THEN \E k \in MostSimilar :
               probe.out =
                 [plate |-> lower(probe.runtime_config.watched_plates[k]),
                  score |-> None,
                  fuzzy |-> FuzzyRatio(k)]
       ELSE /\ probe.out.fuzzy = NoRatio
            /\ (TopPlateWatched \/ WatchedCandidates = {})
                  => probe.out = EmptyMatch

\* ABC12D against the watch-list ABC123, def456 with threshold 0.8: abc123
\* has the greater ratio, 10/12, which meets the threshold.
C12_Witness ==
    /\ probe.done
    /\ probe.plate_number = ABC12D
    /\ probe.runtime_config.watched_plates = <<ABC123, def456>>
    /\ probe.runtime_config.fuzzy_match = 80
    /\ probe.candidates = <<>>
    /\ probe.out = [plate |-> abc123, score |-> None, fuzzy |-> <<10, 12>>]

\* The plate get_plate resolved for the call of worker w: the watch-list
\* match when there is one, the recognised plate otherwise.
ResolvedPlate(w) ==
    IF loc[w].rec.watched_plate # NoPlate
    THEN loc[w].rec.watched_plate
    ELSE loc[w].rec.plate_number

\* C13 as stated: the plate written to the row and the sub label pushed are
\* both the resolved watch-list match when there is one and the recognised
\* plate otherwise.
C13_SavedPlate ==
    \A w \in Workers :
        (Done(w) /\ Reached(w, "set_sublabel"))
        => /\ gh[w].insert_ret = "True"
              => \A i \in Rows(plates, msg[w].id) :
                    plates[i].plate_number = ResolvedPlate(w)
           /\ gh[w].sublabels = <<ResolvedPlate(w)>>

\* C13 amended: the row holds the resolved plate as it is; the sub label
\* pushed is its first 20 characters in upper case.
C13_SavedPlateUpper ==
    \A w \in Workers :
        (Done(w) /\ Reached(w, "set_sublabel"))
        => /\ gh[w].insert_ret = "True"
              => /\ Rows(plates, msg[w].id) # {}
                 /\ \A i \in Rows(plates, msg[w].id) :
                       plates[i].plate_number = ResolvedPlate(w)
           /\ gh[w].sublabels = <<upper(first20(ResolvedPlate(w)))>>

\* ABC12D was recognised and resolved to the watch-list entry abc123: the
\* row holds abc123 and the sub label is ABC123.
C13_Witness ==
    \E w \in Workers :
        /\ Done(w)
        /\ gh[w].insert_ret = "True"
        /\ loc[w].rec.plate_number = ABC12D
        /\ loc[w].rec.watched_plate = abc123
        /\ \E i \in Rows(plates, msg[w].id) : plates[i].plate_number = abc123
        /\ gh[w].sublabels = <<ABC123>>

\* The has-processed read of the call of worker w failed with an
\* sqlite3.Error.
ReadFailed(w) ==
    /\ gh[w].faulted
    /\ gh[w].trace # <<>>
    /\ gh[w].trace[Len(gh[w].trace)] = "has_processed_event"

\* The insert of the call of worker w failed with an sqlite3.Error that is
\* not an IntegrityError.
InsertFailed(w) == gh[w].insert_ret = "raise"

\* C14 as stated: a call in which the has-processed read or the insert
\* failed with a storage error other than a uniqueness violation ends with
\* the outcome 'db_error', and no exception leaves process_message.
C14_StorageFailureIsDbError ==
    \A w \in Workers :
        (Done(w) /\ (ReadFailed(w) \/ InsertFailed(w)))
        => /\ gh[w].reported = <<"db_error">>
           /\ ~gh[w].escaped

\* The message of worker w satisfies what C15 requires of an accepted
\* event; gh[w].tracked is whether the event was tracked when the filter
\* ran.
Acceptable(w) ==
    /\ \/ config.zones = <<>>
       \/ \E z \in {config.zones[i] : i \in 1..Len(config.zones)} :
             z \in {msg[w].current_zones[k] :
                      k \in 1..Len(msg[w].current_zones)}
    /\ \/ config.camera = <<>>
       \/ msg[w].camera \in {config.camera[i] : i \in 1..Len(config.camera)}
    /\ msg[w].label \in
          {valid_objects(config)[i] : i \in 1..Len(valid_objects(config))}
    /\ ~ /\ ~config.frigate_plus
         /\ msg[w].before_top_score = msg[w].top_score
         /\ gh[w].tracked

\* C15: a call that ran check_invalid_event returns 'invalid_event' exactly
\* when the event fails one of: zone filter empty or a configured zone among
\* the current zones; camera filter empty or camera configured; label a
\* valid object; not (frigate_plus off, before.top_score = after.top_score
\* and the event tracked).  No other call returns 'invalid_event'.
C15_InvalidEvent ==
    \A w \in Workers :
        Done(w)
        => IF gh[w].filtered
           THEN (gh[w].reported = <<"invalid_event">>) <=> ~Acceptable(w)
           ELSE gh[w].reported # <<"invalid_event">>

\* The event is on the configured camera, labelled car, with no zone
\* filter, and is tracked from an earlier update; the update with an
\* unchanged top_score is rejected.
C15_Witness ==
    \E w \in Workers :
        /\ Done(w)
        /\ config = ScenarioConfig
        /\ gh[w].filtered /\ gh[w].tracked
        /\ msg[w].camera = "front" /\ msg[w].label = "car"
        /\ msg[w].before_top_score = msg[w].top_score
        /\ gh[w].reported = <<"invalid_event">>

\* The has-processed check of the call of worker w found no row, so the
\* call went on to the license plate gate.
PassedDuplicateCheck(w) ==
    /\ Reached(w, "has_processed_event")
    /\ ~ReadFailed(w)
    /\ ~ /\ gh[w].trace[Len(gh[w].trace)] = "has_processed_event"
         /\ gh[w].reported = <<"duplicate_event">>

\* The scores of the license_plate attributes of the message of worker w,
\* in order.
PlateAttributeScores(w) ==
    LET a == msg[w].current_attributes
        RECURSIVE scores(_)
        scores(i) ==
            IF i > Len(a) THEN <<>>
            ELSE IF a[i].label = "license_plate"
                 THEN <<a[i].score>> \o scores(i + 1)
                 ELSE scores(i + 1)
    IN  scores(1)

\* C16: a call that passed the invalid-event filter and the duplicate check
\* returns 'invalid_license_plate' exactly when frigate_plus is on and
\* `after` has no license_plate attribute or the first one scores below
\* license_plate_min_score; with frigate_plus off the gate rejects nothing,
\* and no call that did not reach the gate returns that outcome.
C16_LicensePlateGate ==
    \A w \in Workers :
        Done(w)
        => IF PassedDuplicateCheck(w)
           THEN (gh[w].reported = <<"invalid_license_plate">>)
                <=> /\ config.frigate_plus
                    /\ \/ PlateAttributeScores(w) = <<>>
                       \/ PlateAttributeScores(w)[1]
                             < config.license_plate_min_score
           ELSE gh[w].reported # <<"invalid_license_plate">>

\* frigate_plus with license_plate_min_score 0.5: an update without any
\* license_plate attribute passed the filter and the duplicate check and
\* was rejected at the gate.
C16_Witness ==
    \E w \in Workers :
        /\ Done(w)
        /\ config.frigate_plus
        /\ PassedDuplicateCheck(w)
        /\ msg[w].current_attributes = <<>>
        /\ gh[w].reported = <<"invalid_license_plate">>

\* The tracker without the record of one event.
Without(events, event_id) ==
    [e \in DOMAIN events \ {event_id} |-> events[e]]

\* C17: every step that clears the record of an event (the step for a
\* terminal message, at its first delivery and at a replay, and the step
\* for a missing snapshot) raises nothing and leaves the tracker without
\* that record and otherwise as it was; when the record is already absent
\* the tracker is unchanged.
C17_ClearIdempotent ==
    [][\A w \in Workers :
          ( /\ pc'[w] # pc[w]
            /\ \/ pc[w] = "end_check" /\ msg[w].type = "end"
               \/ pc[w] = "no_snapshot" )
          => /\ CURRENT_EVENTS' = Without(CURRENT_EVENTS, msg[w].id)
             /\ msg[w].id \notin DOMAIN CURRENT_EVENTS
                   => CURRENT_EVENTS' = CURRENT_EVENTS
             /\ ~gh'[w].raised
             /\ pc[w] = "end_check" => pc'[w] = "filter"
             /\ pc[w] = "no_snapshot"
                   => gh'[w].reported = <<"no_snapshot">>]_vars

\* A terminal message was delivered a second time: the event was not
\* tracked when the filter ran, the snapshot could not be fetched, and
\* clear_event ran on the absent record while another event stayed tracked;
\* the call returned 'no_snapshot'.
C17_Witness ==
    \E w \in Workers :
        /\ Done(w)
        /\ gh[w].replay
        /\ msg[w].type = "end"
        /\ gh[w].filtered /\ ~gh[w].tracked
        /\ Reached(w, "clear_event")
        /\ gh[w].reported = <<"no_snapshot">>
        /\ DOMAIN CURRENT_EVENTS = {"evt-2"}

C19_OneBackend ==
    /\ probe.stage # "file"
          => /\ (~probe.raw.plate_recognizer /\ ~probe.raw.code_project)
                   => probe.loaded = "ValueError"
             /\ probe.loaded = "accepted"
                   => (config.plate_recognizer \/ config.code_project)
    /\ probe.stage = "called"
          => /\ probe.loaded = "accepted"
             /\ Cardinality(probe.called) = 1
             /\ ("plate_recognizer" \in probe.called)
                   <=> probe.raw.plate_recognizer
             /\ ("code_project" \in probe.called)
                   <=> (probe.raw.code_project /\ ~probe.raw.plate_recognizer)

\* Both backend blocks are in the file: the configuration is accepted and
\* get_plate posts to Plate Recognizer alone.
C19_Witness ==
    /\ probe.stage = "called"
    /\ probe.raw.plate_recognizer /\ probe.raw.code_project
    /\ probe.called = {"plate_recognizer"}
    /\ probe.out.plate_number = AB12CD

\* The keys of the outbound message without and with a watch-list match.
PlainKeys ==
    {"plate_number", "score", "frigate_event_id", "camera_name",
     "start_time", "is_watched_plate"}

WatchedKeys == PlainKeys \cup {"original_plate", "fuzzy_score"}

\* C20 as stated: the message published has is_watched_plate true, the
\* matched watch-list entry as plate_number, the recognised plate as
\* original_plate and the fuzzy_score exactly when a match was resolved;
\* otherwise is_watched_plate false, the recognised plate as plate_number
\* and neither original_plate nor fuzzy_score.
C20_PlateMessage ==
    \A w \in Workers :
        (Done(w) /\ gh[w].published # <<>>)
        => LET m == gh[w].published[1]
               r == loc[w].rec
           IN  IF r.watched_plate # NoPlate
               THEN /\ DOMAIN m = WatchedKeys
                    /\ m.is_watched_plate
                    /\ m.plate_number = r.watched_plate
                    /\ m.original_plate = r.plate_number
                    /\ m.fuzzy_score = r.fuzzy_score
               ELSE /\ DOMAIN m = PlainKeys
                    /\ ~m.is_watched_plate
                    /\ m.plate_number = r.plate_number

\* C20 amended: as stated, with plate_number and original_plate in upper
\* case.
C20_PlateMessageUpper ==
    \A w \in Workers :
        (Done(w) /\ gh[w].published # <<>>)
        => /\ Len(gh[w].published) = 1
           /\ LET m == gh[w].published[1]
                  r == loc[w].rec
              IN  IF r.watched_plate # NoPlate
                  THEN /\ DOMAIN m = WatchedKeys
                       /\ m.is_watched_plate
                       /\ m.plate_number = upper(r.watched_plate)
                       /\ m.original_plate = upper(r.plate_number)
                       /\ m.fuzzy_score = r.fuzzy_score
                  ELSE /\ DOMAIN m = PlainKeys
                       /\ ~m.is_watched_plate
                       /\ m.plate_number = upper(r.plate_number)

\* AB12CD was recognised and its candidate ABC123 is watched: the message
\* has plate_number ABC123, original_plate AB12CD, the candidate's score
\* and a fuzzy_score of None.
C20_Witness ==
    \E w \in Workers :
        /\ Done(w)
        /\ Len(gh[w].published) = 1
        /\ gh[w].published[1].is_watched_plate
        /\ gh[w].published[1].plate_number = ABC123
        /\ gh[w].published[1].original_plate = AB12CD
        /\ gh[w].published[1].score = 85
        /\ gh[w].published[1].fuzzy_score = NoRatio

\* C21: after a call for a terminal (end) message has ended, with any
\* outcome, the tracker holds no record for the event of that message.
C21_EndLeavesNoRecord ==
    \A w \in Workers :
        (Done(w) /\ msg[w].valid /\ msg[w].type = "end")
        => ~is_event_tracked(CURRENT_EVENTS, msg[w].id)

\* C22: under a configuration loaded from a file without an objects list,
\* an event on a configured camera is rejected by check_invalid_event
\* exactly when its label is none of car, motorcycle and bus.
C22_DefaultObjects ==
    (probe.stage = "filtered" /\ probe.raw.objects = <<>>)
    => (probe.invalid <=> ~InSeq(probe.label, DEFAULT_OBJECTS))

\* The message of worker w was parsed, its event was tracked when the call
\* began, and its top_score is the one of the message before.
TrackedUnchanged(w) ==
    /\ gh[w].tracked_before
    /\ msg[w].before_top_score = msg[w].top_score

\* The call of worker w neither looked for a stored row nor counted an
\* attempt nor called the recogniser.
StoppedAtFilter(w) ==
    /\ ~Reached(w, "has_processed_event")
    /\ ~Reached(w, "increment_event_attempt")
    /\ ~Reached(w, "get_plate")

\* Zone, camera or label of the message of worker w is not as configured.
OtherGround(w) ==
    check_invalid_event_unscored(config, [top_score |-> msg[w].before_top_score], msg[w], FALSE)

\* C23 as stated: with frigate_plus off, a call for a message of a tracked
\* event with an unchanged top_score returns 'invalid_event' without the
\* duplicate check, an attempt or a recognition; with frigate_plus on, such
\* a call returns 'invalid_event' only for its zone, camera or label.
C23_ScoreEquality ==
    \A w \in Workers :
        (Done(w) /\ TrackedUnchanged(w))
        => IF ~config.frigate_plus
           THEN gh[w].reported = <<"invalid_event">> /\ StoppedAtFilter(w)
           ELSE gh[w].reported = <<"invalid_event">> => OtherGround(w)

\* C23 amended: as stated for a message that is not terminal; a terminal
\* message clears the tracking before the filter runs and, like a message
\* under frigate_plus, is rejected only for its zone, camera or label.
C23_ScoreEqualityUpdate ==
    \A w \in Workers :
        (Done(w) /\ TrackedUnchanged(w))
        => IF ~config.frigate_plus /\ msg[w].type # "end"
           THEN gh[w].reported = <<"invalid_event">> /\ StoppedAtFilter(w)
           ELSE gh[w].reported = <<"invalid_event">> => OtherGround(w)

\* frigate_plus is off and an update of the tracked evt-1 on the
\* configured camera, labelled car, repeats the top_score: it is rejected
\* at the filter.
C23_Witness ==
    \E w \in Workers :
        /\ Done(w)
        /\ TrackedUnchanged(w)
        /\ ~config.frigate_plus
        /\ msg[w].type = "update"
        /\ ~OtherGround(w)
        /\ gh[w].reported = <<"invalid_event">>
        /\ gh[w].trace = <<"parse", "is_event_tracked">>

\* The call of worker w, for a message that is not terminal, was rejected
\* at the filter, at the duplicate check or at the license plate gate.
RejectedEarly(w) ==
    /\ Done(w)
    /\ msg[w].valid
    /\ msg[w].type # "end"
    /\ gh[w].reported \in {<<"invalid_event">>, <<"duplicate_event">>,
                           <<"invalid_license_plate">>}
    /\ ~Reached(w, "insert_plate")

\* The calls of collaborators made by the call of worker w.
Calls(w) == {gh[w].trace[i] : i \in 1..Len(gh[w].trace)}

\* The message of worker w passes the license plate gate.
PlateAttributeOK(w) ==
    config.frigate_plus
    => /\ PlateAttributeScores(w) # <<>>
       /\ PlateAttributeScores(w)[1] >= config.license_plate_min_score

\* C24: a call for a non-terminal message rejected at the filter, the
\* duplicate check or the license plate gate has only parsed the payload
\* and read the tracker and the store: the record of its event and the
\* rows of its event are as before the call, and it fetched no snapshot,
\* called no recogniser, pushed no sublabel and published nothing.  No step
\* of a call up to the gate changes the tracker or the store, and a call
\* starts tracking only for a message that passes all three checks.
C24_RejectionFrame ==
    /\ [](\A w \in Workers :
            /\ RejectedEarly(w)
                  => /\ Calls(w) \subseteq {"parse", "is_event_tracked",
                                            "has_processed_event"}
                     /\ is_event_tracked(CURRENT_EVENTS, msg[w].id)
                            = gh[w].tracked_before
                     /\ Count(CURRENT_EVENTS, msg[w].id) = gh[w].attempts_before
                     /\ (Rows(plates, msg[w].id) # {}) = gh[w].row_before
                     /\ gh[w].sublabels = <<>>
                     /\ gh[w].published = <<>>
            /\ Reached(w, "track_event_start")
                  => /\ Acceptable(w)
                     /\ ~gh[w].row_before
                     /\ PlateAttributeOK(w))
    /\ [][\A w \in Workers :
            (/\ pc[w] \in {"first_read", "first_write", "end_check",
                            "filter", "dedup"}
             /\ pc'[w] # pc[w]
             /\ msg'[w].valid
             /\ msg'[w].type # "end")
            => /\ CURRENT_EVENTS' = CURRENT_EVENTS
               /\ plates' = plates]_vars

\* evt-1 is stored and still tracked with one attempt; a further update of
\* it is rejected at the duplicate check and the record and the row stay.
C24_Witness ==
    \E w \in Workers :
        /\ RejectedEarly(w)
        /\ gh[w].reported = <<"duplicate_event">>
        /\ gh[w].trace = <<"parse", "is_event_tracked", "has_processed_event">>
        /\ gh[w].row_before
        /\ CURRENT_EVENTS = [e \in {msg[w].id} |-> 1]
        /\ Len(plates) = 1

\* The call of worker w came to the snapshot step: its message passed the
\* filter, the duplicate check and the license plate gate.
CameToSnapshot(w) ==
    /\ Done(w)
    /\ msg[w].valid
    /\ gh[w].filtered
    /\ Acceptable(w)
    /\ PassedDuplicateCheck(w)
    /\ PlateAttributeOK(w)

\* C25: a call that came to the snapshot step with has_snapshot false, or
\* whose fetch returned nothing, returns 'no_snapshot' without counting an
\* attempt or calling the recogniser, and its event is untracked
\* afterwards; the same update delivered next finds no record and an
\* attempt count of 0.
C25_NoSnapshot ==
    \A w \in Workers :
        /\ (CameToSnapshot(w) /\ ~loc[w].snapshot)
              => /\ gh[w].reported = <<"no_snapshot">>
                 /\ ~Reached(w, "increment_event_attempt")
                 /\ ~Reached(w, "get_plate")
                 /\ ~is_event_tracked(CURRENT_EVENTS, msg[w].id)
        /\ gh[w].reported = <<"no_snapshot">>
              => CameToSnapshot(w) /\ ~loc[w].snapshot
        /\ (gh[w].replay /\ gh[w].prev = <<"no_snapshot">>
                /\ Reached(w, "parse"))
              => /\ ~gh[w].tracked_before
                 /\ gh[w].attempts_before = 0

\* An update whose snapshot fetch returned nothing ended with
\* 'no_snapshot'; delivered again, its snapshot was fetched and the
\* recognition was attempt 1 of its event.
C25_Witness ==
    \E w \in Workers :
        /\ Done(w)
        /\ gh[w].replay
        /\ gh[w].prev = <<"no_snapshot">>
        /\ msg[w].type = "update"
        /\ msg[w].has_snapshot
        /\ Reached(w, "get_plate")
        /\ gh[w].attempts_before = 0
        /\ CURRENT_EVENTS = [e \in {msg[w].id} |-> 1]

\* The position of the first call of the given collaborator in the trace
\* of worker w (0 when it was not called), and how often it was called.
Position(w, call) ==
    IF Reached(w, call)
    THEN CHOOSE i \in 1..Len(gh[w].trace) :
            /\ gh[w].trace[i] = call
            /\ \A k \in 1..(i - 1) : gh[w].trace[k] # call
    ELSE 0

Times(w, call) ==
    Cardinality({i \in 1..Len(gh[w].trace) : gh[w].trace[i] = call})

\* C26 as stated: a finished call whose get_plate returned a plate number
\* made one insert attempt, then pushed one sublabel, then published one
\* message, whatever the insert returned; a finished call without a plate
\* number pushed and published nothing.
C26_PushAndPublishOnce ==
    \A w \in Workers :
        Done(w)
        => IF Reached(w, "get_plate") /\ TruthyPlate(loc[w].rec.plate_number)
           THEN /\ Times(w, "insert_plate") = 1
                /\ Times(w, "set_sublabel") = 1
                /\ Times(w, "publish_plate_message") = 1
                /\ Len(gh[w].sublabels) = 1
                /\ Len(gh[w].published) = 1
                /\ Position(w, "insert_plate") < Position(w, "set_sublabel")
                /\ Position(w, "set_sublabel")
                      < Position(w, "publish_plate_message")
           ELSE /\ gh[w].sublabels = <<>>
                /\ gh[w].published = <<>>

\* The call of worker w raised inside save_image.
SaveFailed(w) ==
    /\ gh[w].raised
    /\ gh[w].trace[Len(gh[w].trace)] = "save_image"

FinalAttemptFailed ==
    /\ probe.stage = "returned"
    /\ probe.response.status \notin {200, 201}

\* C28 as stated: a recognize call on Plate Recognizer has submitted the
\* image at most max_retries + 1 times at any moment, exactly that often
\* when it returns after a failed final attempt, and it returns with the
\* first 200 or 201 response.
C28_BoundedSubmissions ==
    /\ probe.sends <= config.max_retries + 1
    /\ FinalAttemptFailed => probe.sends = config.max_retries + 1
    /\ (probe.stage = "handle" /\ probe.response.status \in {200, 201})
          => loop_iteration(probe.response, probe.attempt, probe.attempts,
                            probe.delay_seconds).next = "parse"

\* C29 as stated: a recognize call on Plate Recognizer whose final attempt
\* failed (connection error, 429, 5xx or another status that is not 200 or
\* 201) has returned the empty result and incremented plate_recognizer_err
\* exactly once.
C29_FinalFailureCounted ==
    FinalAttemptFailed
    => /\ probe.result = EmptyResult
       /\ probe.err = 1

\* min(2^(k-1), 60)
Backoff(k) == IF 2^(k - 1) < 60 THEN 2^(k - 1) ELSE 60

\* C30: at every moment of a recognize call on Plate Recognizer the call
\* has slept once after each failed attempt that was followed by another
\* iteration, the k-th sleep lasted min(2^(k-1), 60) seconds whatever the
\* failures were, and the delay held for the next sleep is the next value
\* of that series.
C30_Backoff ==
    /\ Len(probe.sleeps) = probe.attempt - 1
    /\ \A k \in 1..Len(probe.sleeps) : probe.sleeps[k] = Backoff(k)
    /\ probe.delay_seconds = Backoff(probe.attempt)
    /\ probe.delay_seconds <= 60

\* Seven attempts have failed: the call has slept 1, 2, 4, 8, 16 and 32
\* seconds and then 60, and posts again.
C30_Witness ==
    /\ probe.stage = "post"
    /\ probe.attempt = 8
    /\ probe.sleeps = <<1, 2, 4, 8, 16, 32, 60>>

\* C31: every WatchMatch that check_watched_plates returns has at most
\* one of the candidate score and the fuzzy ratio, and has neither when it
\* has no matched plate.
C31_WatchMatchShape ==
    probe.done
    => /\ ~(probe.out.score # None /\ probe.out.fuzzy # NoRatio)
       /\ probe.out.plate = NoPlate
             => (probe.out.score = None /\ probe.out.fuzzy = NoRatio)

\* A call returned a fuzzy match: a plate and a ratio, and no score, for a
\* top plate that is in no candidate's place.
C31_Witness ==
    /\ probe.done
    /\ probe.plate_number = ABC12D
    /\ probe.out.plate = abc123
    /\ probe.out.fuzzy # NoRatio
    /\ probe.out.score = None

\* An increment on event_id has written the new count and has yet to
\* return it.
Returning(event_id) ==
    \E t \in Callers : /\ probe.th[t].pc = "return"
                       /\ probe.th[t].id = event_id

\* C32: the tracker's operations are atomic under concurrent callers.  The
\* increments on an identifier since its last clear have returned 1, 2,
\* ..., N in turn and its count is N once they have returned; a start on a
\* tracked identifier leaves its count as it was; a read of an identifier
\* that is not tracked returns 0.
C32_AtomicOperations ==
    /\ \A e \in EventIds :
          /\ \A k \in 1..Len(probe.rets[e]) : probe.rets[e][k] = k
          /\ ~Returning(e) => Stored(CURRENT_EVENTS, e) = Len(probe.rets[e])
    /\ (probe.last.op = "track_event_start" /\ probe.last.tracked)
          => probe.last.after = probe.last.before
    /\ (probe.last.op = "get_event_attempts" /\ ~probe.last.tracked)
          => probe.last.ret = 0

\* Three increments on one identifier, two of them called while another
\* call held the lock, have returned 1, 2 and 3, and a start on the
\* identifier then left its count at 3.
C32_Witness ==
    \E e \in EventIds :
        /\ probe.rets[e] = <<1, 2, 3>>
        /\ probe.overlaps >= 2
        /\ probe.last.op = "track_event_start"
        /\ probe.last.id = e
        /\ probe.last.before = 3
        /\ probe.last.after = 3

\* C33: a traversal that a worker thread has begun ends, with exactly one
\* of the enumerated outcomes reported and no exception leaving
\* process_message; and a Plate Recognizer call that has begun returns.
C33_Terminates ==
    /\ \A w \in Workers :
          (pc[w] \notin {"idle", "done"})
             ~> /\ pc[w] = "done"
                /\ Len(gh[w].reported) = 1
                /\ gh[w].reported[1] \in Outcomes
                /\ ~gh[w].escaped
    /\ (probe.stage = "post") ~> (probe.stage = "returned")

\* A traversal has ended in 'success' after a recognition call that went
\* twice round the retry loop, slept once and sent three requests.
C33_Witness ==
    /\ Done(SeqWorker)
    /\ gh[SeqWorker].reported = <<"success">>
    /\ probe.attempt = 2
    /\ probe.sleeps = <<1>>
    /\ probe.sends = 3

\* C34 as stated: at any moment at most one call of the pool has returned
\* 'first_message'.
C34_OneFirstMessage ==
    Cardinality({w \in Workers :
                    Done(w) /\ gh[w].reported = <<"first_message">>}) <= 1

\* C35: with max_attempts = M > 0 the attempt count of an event is at
\* most M + B - 1, B being the largest number of calls that have been
\* inside process_message at once: at most M while messages are processed
\* one at a time, and at most M + W - 1 in a pool of W workers.
C35_SoftCeiling ==
    \A e \in EventIds :
        /\ main.busiest <= Cardinality(Workers)
        /\ main.busiest >= 1
              => Count(CURRENT_EVENTS, e) <= config.max_attempts + main.busiest - 1
        /\ main.busiest = 0 => Count(CURRENT_EVENTS, e) = 0

\* Two calls passed the ceiling of one together and both counted: the
\* count stands at M + W - 1 = 2.
C35_Witness ==
    /\ config.max_attempts = 1
    /\ main.busiest = Cardinality(Workers)
    /\ Count(CURRENT_EVENTS, "evt-1") = 2
    /\ \A w \in Workers : gh[w].attempts_at_check = 0

\* C36 as stated: for every event identifier the calls that have returned
\* 'success' are as many as the rows stored for it.
C36_RowsAreSuccesses ==
    \A e \in EventIds : successes[e] = Cardinality(Rows(plates, e))

\* C37 as stated: when a call has returned 'duplicate_event', the store
\* holds a row for the event of its message.
C37_DuplicateHasRow ==
    \A w \in Workers :
        (Done(w) /\ gh[w].reported = <<"duplicate_event">>)
        => Rows(plates, msg[w].id) # {}

\* C38 as stated: with min_score configured, a plate that get_plate
\* returned without a fuzzy ratio has a score, and the score is min_score
\* or more.
C38_FloorOnEveryScore ==
    \A w \in Workers :
        ( /\ Reached(w, "get_plate")
          /\ pc[w] \in {"insert", "done"}
          /\ config.min_score # None
          /\ TruthyPlate(loc[w].rec.plate_number)
          /\ ~TruthyRatio(loc[w].rec.fuzzy_score) )
        => /\ loc[w].rec.plate_score # None
           /\ loc[w].rec.plate_score >= config.min_score

\* The recognition calls of the call of worker w.
Recognitions(w) == {i \in 1..Len(gh[w].trace) : gh[w].trace[i] = "get_plate"}

\* C39: one call at a time and max_attempts >= 1.  A terminal message whose
\* zone, camera and label are as configured is not rejected at the filter
\* and never returns 'max_attempts'; once its snapshot is fetched the
\* ceiling finds the count at 0, and the call makes exactly one recognition
\* attempt, whatever the count was when the call began.
C39_EndProceeds ==
    \A w \in Workers :
        ( /\ Done(w)
          /\ gh[w].filtered
          /\ msg[w].type = "end"
          /\ config.max_attempts >= 1
          /\ ~OtherGround(w) )
        => /\ gh[w].reported \notin {<<"invalid_event">>, <<"max_attempts">>}
           /\ ~gh[w].tracked
           /\ loc[w].snapshot
                => /\ gh[w].attempts_at_check = 0
                   /\ Cardinality(Recognitions(w)) = 1
                   /\ Reached(w, "increment_event_attempt")

\* A terminal message for the tracked evt-1, with an unchanged top_score
\* and the count at the ceiling when the call began, was recognised once.
C39_Witness ==
    \E w \in Workers :
        /\ Done(w)
        /\ msg[w].type = "end"
        /\ config.max_attempts >= 1
        /\ ~config.frigate_plus
        /\ TrackedUnchanged(w)
        /\ gh[w].attempts_before >= config.max_attempts
        /\ Reached(w, "clear_event")
        /\ loc[w].snapshot
        /\ Cardinality(Recognitions(w)) = 1

\* C40 as stated: when a recognize call on Plate Recognizer has returned,
\* each of its sleeps was followed by another session.post, so that it has
\* slept fewer times than it has posted.
C40_NoSleepAfterFinalAttempt ==
    probe.stage = "returned" => Len(probe.sleeps) < probe.posts

====
